---- MODULE Spec2Model ----
(***************************************************************************)
(* Verification model of the Agiloft MCP server: the authenticated         *)
(* transport (agiloft_client.py), the generic entity handlers              *)
(* (tool_handlers.py) and the tool generator (tool_generator.py).          *)
(*                                                                         *)
(* Time is counted in minutes.  None is modelled by NoToken / NoExpiry.    *)
(***************************************************************************)
EXTENDS Integers, Sequences, FiniteSets, TLC

(***************************************************************************)
(* Bounds of the model                                                     *)
(***************************************************************************)
NumProcs == 2
MaxTime == 2
MaxExpiresIn == 2
MaxLen == 4
MaxRecords == 2
MaxItems == 2
MaxContracts == 3

(***************************************************************************)
(* Program constants                                                       *)
(***************************************************************************)
RefreshMargin == 1
DefaultExpiresIn == 15

NoToken == "None"
\* the opaque token strings the remote service may issue
Tokens == {"tokenA", "tokenB"}
NoExpiry == -1
NoExpiresIn == -1

Procs == 1..NumProcs

VARIABLES
    \* ---- AgiloftClient (agiloft_client.py) ----
    now,               \* datetime.now(), in minutes
    access_token,      \* self.access_token
    refresh_token,     \* self.refresh_token
    token_expires_at,  \* self.token_expires_at
    auth_lock,         \* holder of self._auth_lock, 0 when free
    lock_waiters,      \* FIFO queue of the tasks blocked in _auth_lock.acquire()
    pc,                \* position of each task inside _make_request
    attempts,          \* HTTP attempts session.request(...) of the current call
    relogins,          \* 401-triggered _authenticate() calls of the current call
    bearer,            \* token in the Authorization header of the last attempt
    last,              \* the call that ended last: its outcome and the reply that decided it
    sawLogin,          \* history: a login stored a token while the task was blocked on the lock
    \* ---- _sanitize_query_value (tool_handlers.py) ----
    value,             \* the argument, a sequence of characters
    sanitized,         \* the returned string, NotYet before the call returns
    \* ---- generate_tools (tool_generator.py) ----
    registry,          \* the ENTITY_REGISTRY generate_tools reads: entity key -> EntityConfig
    gen_pc,            \* "for_entity", "for_op", "returned"
    entity_i,          \* position of the outer loop in the registry's values
    ops,               \* operations of the current entity still to generate
    tools,             \* the list of generated tools
    dispatch,          \* tool name -> <<entity key, action>>
    \* ---- dispatch_tool_call and the entity handlers (tool_handlers.py) ----
    name,              \* the tool name of the call
    arguments,         \* the argument map of the call
    handler_pc,        \* "called", "search", "search_text", "await", "returned", "raised"
    calls,             \* history: the client operations the handler has called
    returned,          \* history: what each of them returned or raised
    seen_ids,          \* handle_search: the ids merged so far
    results,           \* handle_search: the records as retrieved, before the limit cuts them
    envelope,          \* the envelope returned to the caller
    \* ---- AgiloftClient.get_record (agiloft_client.py) ----
    get_response,      \* the parsed body _make_request returned
    get_record_id,     \* the record_id argument
    get_fields,        \* the fields argument
    get_pc,            \* "called", "returned", "raised"
    get_result,        \* the value returned
    get_error,         \* the exception raised
    \* ---- the composite workflows (workflow_handlers.py) ----
    workflow,          \* the handler dispatch_workflow_call runs, "none" when idle
    wf_arguments,      \* the arguments of the call
    wf_env,            \* what the handler reads from the machine: the file, the clock
    wf_pc,             \* "called", the remote call awaited, "returned"
    wf_data,           \* the handler's `data`
    wf_warnings,       \* the handler's `warnings`
    wf_next_steps,     \* the handler's `next_steps`
    wf_calls,          \* history: the client operations the handler has called
    wf_replies,        \* history: what each of them returned or raised
    wf_result,         \* the envelope returned to the caller
    \* ---- the configuration and the client built from it (config.py) ----
    config,            \* Config._config_data["agiloft"]
    config_pc,         \* "loaded", "validated", "exited", "constructed", "login", ...
    client_config,     \* base_url, username, password, kb, language of the client
    http_requests,     \* history: the requests handed to the network
    config_str,        \* str(config), None before it is called
    \* ---- AgiloftClient.logout ----
    logout_pc,         \* "none", "request" while logout awaits _make_request,
                       \* "returned", "skipped" when logout found no token
    \* ---- the keyword arguments of one _make_request call ----
    req_kwargs,        \* method, url and **kwargs of the call
    req_pc,            \* "idle", "first", "relogin", "retry", "done"
    req_sent           \* history: what session.request was called with, per attempt

clientVars == <<now, access_token, refresh_token, token_expires_at, auth_lock,
                lock_waiters, pc, attempts, relogins, bearer, last,
                sawLogin>>

sanitizeVars == <<value, sanitized>>

genVars == <<registry, gen_pc, entity_i, ops, tools, dispatch>>

handlerVars ==
    <<name, arguments, handler_pc, calls, returned, seen_ids, results, envelope>>

getVars == <<get_response, get_record_id, get_fields, get_pc, get_result, get_error>>

workflowVars ==
    <<workflow, wf_arguments, wf_env, wf_pc, wf_data, wf_warnings, wf_next_steps,
      wf_calls, wf_replies, wf_result>>

configVars == <<config, config_pc, client_config, http_requests, config_str>>

logoutVars == <<logout_pc>>

requestVars == <<req_kwargs, req_pc, req_sent>>

vars == <<clientVars, sanitizeVars, genVars, handlerVars, getVars, workflowVars,
          configVars, logoutVars, requestVars>>

\* what the steps of one component leave alone: the state of the others
nonLogoutVars ==
    <<sanitizeVars, genVars, handlerVars, getVars, workflowVars, configVars,
      requestVars>>
nonRequestVars ==
    <<sanitizeVars, genVars, handlerVars, getVars, workflowVars, configVars,
      logoutVars>>
nonClientVars ==
    <<sanitizeVars, genVars, handlerVars, getVars, workflowVars, configVars,
      logoutVars, requestVars>>
nonSanitizeVars ==
    <<clientVars, genVars, handlerVars, getVars, workflowVars, configVars,
      logoutVars, requestVars>>
nonGenVars ==
    <<clientVars, sanitizeVars, handlerVars, getVars, workflowVars, configVars,
      logoutVars, requestVars>>
nonHandlerVars ==
    <<clientVars, sanitizeVars, genVars, getVars, workflowVars, configVars,
      logoutVars, requestVars>>
nonGetVars ==
    <<clientVars, sanitizeVars, genVars, handlerVars, workflowVars, configVars,
      logoutVars, requestVars>>
nonConfigVars ==
    <<clientVars, sanitizeVars, genVars, handlerVars, getVars, workflowVars,
      logoutVars, requestVars>>
nonWorkflowVars ==
    <<clientVars, sanitizeVars, genVars, handlerVars, getVars, configVars,
      logoutVars, requestVars>>

\* the result of a function that has not returned yet
NotYet == <<"<not yet>">>

(***************************************************************************)
(* Strings are sequences of one-character strings.                         *)
(* str.replace(old, new): the non-overlapping occurrences of old, found    *)
(* from left to right, are replaced by new.                                *)
(***************************************************************************)
StartsWith(s, old) ==
    /\ Len(s) >= Len(old)
    /\ SubSeq(s, 1, Len(old)) = old

RECURSIVE Replace(_, _, _)
Replace(s, old, new) ==
    IF s = <<>> THEN <<>>
    ELSE IF StartsWith(s, old)
         THEN new \o Replace(SubSeq(s, Len(old) + 1, Len(s)), old, new)
         ELSE <<Head(s)>> \o Replace(Tail(s), old, new)

\* `old in s`
Contains(s, old) ==
    \E i \in 1..(Len(s) - Len(old) + 1) : SubSeq(s, i, i + Len(old) - 1) = old

Quote == "'"
Dash == "-"
Semicolon == ";"

\* tool_handlers._sanitize_query_value
SanitizeQueryValue(v) ==
    LET quoted == Replace(v, <<Quote>>, <<Quote, Quote>>)
        undashed == Replace(quoted, <<Dash, Dash>>, <<>>)
    IN  Replace(undashed, <<Semicolon>>, <<>>)

\* the characters free text is drawn from, and the strings of at most n of them
Alphabet == {Quote, Dash, Semicolon, "a"}

StringsUpTo(n) == UNION {[1..k -> Alphabet] : k \in 0..n}

SanitizeIdle ==
    /\ value = <<>>
    /\ sanitized = NotYet

SanitizeInit ==
    /\ value \in StringsUpTo(MaxLen)
    /\ sanitized = NotYet

\* one call of _sanitize_query_value(value)
Sanitize ==
    /\ sanitized = NotYet
    /\ sanitized' = SanitizeQueryValue(value)
    /\ UNCHANGED <<value, nonSanitizeVars>>

(***************************************************************************)
(* entity_registry.py: the registered entities, in the order of the dict.  *)
(* Of an EntityConfig the fields that tool generation and the handlers     *)
(* read are kept.                                                          *)
(***************************************************************************)
EntityConfig(key, key_plural, api_path, text_search_fields) ==
    [key |-> key, key_plural |-> key_plural, api_path |-> api_path,
     text_search_fields |-> text_search_fields,
     supports_attach |-> TRUE,
     supports_action_button |-> TRUE,
     supports_evaluate_format |-> TRUE]

\* mutant: an entry requires a field that its key_fields do not list
EntityFieldsUnlisted(key) ==
    [key_fields |-> {"status"},
     default_search_fields |-> <<"id", "status">>,
     required_fields |-> <<"sso_auth_method">>]

\* key_fields, default_search_fields and required_fields of the entries of
\* ENTITY_REGISTRY: the names documented, returned by a search, and required
EntityFields(key) ==
    CASE key = "contract" ->
           [key_fields |-> {"record_type", "contract_title1", "company_name",
                            "contract_amount", "contract_start_date", "contract_end_date",
                            "contract_term_in_months", "internal_contract_owner",
                            "contract_type", "contract_description", "contract_comments",
                            "wfstate", "confidential", "evaluation_frequency",
                            "auto_renewal_term_in_months", "date_signed", "signer1_email",
                            "cost_center", "annual_increase"},
            default_search_fields |-> <<"id", "record_type", "contract_title1",
                                        "company_name", "contract_amount",
                                        "contract_end_date", "internal_contract_owner",
                                        "date_signed", "wfstate", "contract_type">>,
            required_fields |-> <<"record_type", "auto_renewal_term_in_months",
                                  "confidential", "evaluation_frequency">>]
      [] key = "company" ->
           [key_fields |-> {"company_name", "type_of_company", "status", "industry",
                            "parent_company_id", "main_city", "country", "fax",
                            "account_rep", "main_location_name", "ongoing_notes"},
            default_search_fields |-> <<"id", "company_name", "type_of_company", "status",
                                        "industry", "main_city", "country",
                                        "number_of_active_contracts">>,
            required_fields |-> <<"company_name", "type_of_company", "status">>]
      [] key = "attachment" ->
           [key_fields |-> {"title", "status", "attached_file", "expiration_date",
                            "attachment_type", "contract_id", "document_source",
                            "contract_type", "sorting_order", "include_in_approval_packet"},
            default_search_fields |-> <<"id", "title", "status", "attachment_type",
                                        "contract_id", "expiration_date",
                                        "document_source", "sorting_order">>,
            required_fields |-> <<"attached_file", "title", "status", "expiration_date">>]
      [] key = "contact" ->
           [key_fields |-> {"first_name", "last_name", "full_name", "email",
                            "company_name", "company_id", "status", "type_of_contact",
                            "direct_phone", "cell_phone", "title", "sso_auth_method"},
            default_search_fields |-> <<"id", "full_name", "email", "company_name",
                                        "status", "type_of_contact", "direct_phone",
                                        "title">>,
            required_fields |-> <<"sso_auth_method">>]
      [] key = "employee" ->
           [key_fields |-> {"_login", "password", "first_name", "last_name", "full_name",
                            "email", "company_name", "status", "type_of_contact",
                            "department0", "title", "sso_auth_method",
                            "preferred_interface"},
            default_search_fields |-> <<"id", "full_name", "email", "company_name",
                                        "status", "type_of_contact", "department0",
                                        "title", "_login">>,
            required_fields |-> <<"_login", "password", "sso_auth_method">>]
      [] key = "customer" ->
           [key_fields |-> {"_login", "password", "first_name", "last_name", "full_name",
                            "email", "company_name", "status", "type_of_contact", "title",
                            "sso_auth_method"},
            default_search_fields |-> <<"id", "full_name", "email", "company_name",
                                        "status", "type_of_contact", "title", "_login">>,
            required_fields |-> <<"_login", "password", "sso_auth_method">>]
      [] key = "contract_type" ->
           [key_fields |-> {"contract_type", "party_type", "uses_tasks",
                            "default_cost_type", "default_contract_term_in_months",
                            "default_autorenewal_term_in_months",
                            "default_days_in_advance_to_cancel_auto_renewal",
                            "description", "status", "sort_order",
                            "available_for_record_types", "default_renewal_type",
                            "default_workflow_title", "default_task_workflow_title",
                            "default_question_set", "self_serve_available",
                            "enable_ad_hoc_tasks", "deleteable"},
            default_search_fields |-> <<"id", "contract_type", "party_type", "status",
                                        "description", "sort_order",
                                        "available_for_record_types",
                                        "default_renewal_type",
                                        "default_contract_term_in_months",
                                        "default_workflow_title", "self_serve_available",
                                        "uses_tasks">>,
            required_fields |-> <<"contract_type", "party_type", "uses_tasks",
                                  "default_cost_type", "default_contract_term_in_months",
                                  "default_autorenewal_term_in_months",
                                  "default_days_in_advance_to_cancel_auto_renewal">>]

\* mutant: the registry as it was before the contract type entity
EntityKeysOfPhase3 ==
    <<"contract", "company", "attachment", "contact", "employee", "customer">>

EntityKeys ==
    <<"contract", "company", "attachment", "contact", "employee", "customer",
      "contract_type">>

ENTITY_REGISTRY ==
    [k \in {EntityKeys[i] : i \in DOMAIN EntityKeys} |->
      EntityFields(k) @@
        CASE k = "contract" ->
                EntityConfig("contract", "contracts", "/contract",
                             <<"contract_title1", "company_name">>)
          [] k = "company" ->
                EntityConfig("company", "companies", "/company", <<"company_name">>)
          [] k = "attachment" ->
                EntityConfig("attachment", "attachments", "/attachment", <<"title">>)
          [] k = "contact" ->
                EntityConfig("contact", "contacts", "/contacts",
                             <<"full_name", "company_name">>)
          [] k = "employee" ->
                EntityConfig("employee", "employees", "/contacts.employees",
                             <<"full_name", "company_name">>)
          [] k = "customer" ->
                EntityConfig("customer", "customers", "/contacts.customer",
                             <<"full_name", "company_name">>)
          [] k = "contract_type" ->
                EntityConfig("contract_type", "contract_types", "/contract_type",
                             <<"contract_type">>)]

\* a registry in which one entry sets its operation support flags itself
Registries ==
    {[ENTITY_REGISTRY EXCEPT ![k].supports_attach = a,
                             ![k].supports_action_button = b,
                             ![k].supports_evaluate_format = f] :
        k \in DOMAIN ENTITY_REGISTRY, a \in BOOLEAN, b \in BOOLEAN, f \in BOOLEAN}

(***************************************************************************)
(* tool_generator.py                                                       *)
(***************************************************************************)
\* tool_generator._tool_name
ToolName(action, entity, plural) ==
    "agiloft_" \o action \o "_" \o (IF plural THEN entity.key_plural ELSE entity.key)

\* the keys of _GENERATORS
GeneratorOps ==
    {"search", "get", "create", "update", "delete", "upsert",
     "attach_file", "retrieve_attachment", "remove_attachment",
     "get_attachment_info", "action_button", "evaluate_format"}

\* _GENERATORS[op](entity): the tool and the action it is dispatched as;
\* only _gen_search_tool names its tool with the plural
Generator(op, entity) ==
    [tool |-> [name |-> ToolName(op, entity, op = "search"),
               entity |-> entity.key, generator |-> op],
     action |-> op]

\* mutant: the attachment operations are generated whatever the entity supports
OpsForAnyEntity(entity) ==
    <<"search", "get", "create", "update", "delete", "upsert",
      "attach_file", "retrieve_attachment", "remove_attachment",
      "get_attachment_info">>
    \o (IF entity.supports_action_button THEN <<"action_button">> ELSE <<>>)
    \o (IF entity.supports_evaluate_format THEN <<"evaluate_format">> ELSE <<>>)

\* generate_tools: the list `ops` built for one entity
Ops(entity) ==
    <<"search", "get", "create", "update", "delete">>
    \o <<"upsert">>
    \o (IF entity.supports_attach
        THEN <<"attach_file", "retrieve_attachment",
               "remove_attachment", "get_attachment_info">>
        ELSE <<>>)
    \o (IF entity.supports_action_button THEN <<"action_button">> ELSE <<>>)
    \o (IF entity.supports_evaluate_format THEN <<"evaluate_format">> ELSE <<>>)

EmptyDict == [k \in {} |-> <<>>]

\* generate_tools is not running: no registry is being read
GenIdle ==
    /\ registry = EmptyDict
    /\ gen_pc = "returned"
    /\ entity_i = 0
    /\ ops = <<>>
    /\ tools = <<>>
    /\ dispatch = EmptyDict

\* generate_tools is called: tools = [], dispatch = {}
GenInit ==
    /\ registry \in Registries
    /\ gen_pc = "for_entity"
    /\ entity_i = 1
    /\ ops = <<>>
    /\ tools = <<>>
    /\ dispatch = EmptyDict

\* `for entity in ENTITY_REGISTRY.values():` takes the next entity and builds ops
ForEntity ==
    /\ gen_pc = "for_entity"
    /\ entity_i <= Len(EntityKeys)
    /\ ops' = Ops(registry[EntityKeys[entity_i]])
    /\ gen_pc' = "for_op"
    /\ UNCHANGED <<registry, entity_i, tools, dispatch, nonGenVars>>

\* `for op in ops:` one iteration, or the end of the inner loop
ForOp ==
    /\ gen_pc = "for_op"
    /\ IF ops = <<>>
       THEN /\ entity_i' = entity_i + 1
            /\ gen_pc' = "for_entity"
            /\ UNCHANGED <<ops, tools, dispatch>>
       ELSE LET entity == registry[EntityKeys[entity_i]]
                made == Generator(Head(ops), entity)
            IN  /\ tools' = Append(tools, made.tool)
                /\ dispatch' = (made.tool.name :> <<entity.key, made.action>>) @@ dispatch
                /\ ops' = Tail(ops)
                /\ UNCHANGED <<entity_i, gen_pc>>
    /\ UNCHANGED <<registry, nonGenVars>>

\* `return tools, dispatch`
GenReturn ==
    /\ gen_pc = "for_entity"
    /\ entity_i > Len(EntityKeys)
    /\ gen_pc' = "returned"
    /\ UNCHANGED <<registry, entity_i, ops, tools, dispatch, nonGenVars>>

\* the dispatch map generate_tools returns for the registry of the program
ToolDispatch ==
    LET made == {Generator(Ops(ENTITY_REGISTRY[k])[i], ENTITY_REGISTRY[k]) :
                    k \in DOMAIN ENTITY_REGISTRY, i \in 1..12}
    IN  [n \in {m.tool.name : m \in made} |->
            LET m == CHOOSE m \in made : m.tool.name = n
            IN  <<m.tool.entity, m.action>>]

(***************************************************************************)
(* tool_handlers.py.  A Python value is None, written <<>>, or a value v,  *)
(* written <<v>>.  A query is a sequence of lexemes: a word (a maximal run *)
(* of \w characters) or one other character.                               *)
(***************************************************************************)
None == <<>>

\* arguments.get(key, default)
ArgGet(args, key, default) == IF key \in DOMAIN args THEN args[key] ELSE default

Space == " "
OperatorChars == {"=", "<", ">", "!"}
IsWord(c) == c \notin (OperatorChars \cup {Space, Quote, Dash, Semicolon, "~"})

\* re.IGNORECASE, for the words of the queries below
Upper(w) ==
    CASE w = "and" -> "AND"
      [] w = "is" -> "IS"
      [] w = "Null" -> "NULL"
      [] OTHER -> w

\* tool_handlers._is_structured_query
IsStructuredQuery(q) ==
    \/ \E i \in DOMAIN q : \E j \in (i + 1)..Len(q) :
            /\ IsWord(q[i])
            /\ q[j] \in OperatorChars
            /\ \A k \in (i + 1)..(j - 1) : q[k] = Space
    \/ \E i \in DOMAIN q : Upper(q[i]) \in {"AND", "OR", "LIKE", "IN", "NOT", "BETWEEN"}
    \/ \E i \in DOMAIN q : \E j \in (i + 2)..Len(q) :
            /\ Upper(q[i]) = "IS"
            /\ Upper(q[j]) = "NULL"
            /\ \A k \in (i + 1)..(j - 1) : q[k] = Space

\* str.strip()
RECURSIVE LStrip(_)
LStrip(q) == IF q # <<>> /\ Head(q) = Space THEN LStrip(Tail(q)) ELSE q

RECURSIVE RStrip(_)
RStrip(q) ==
    IF q # <<>> /\ q[Len(q)] = Space THEN RStrip(SubSeq(q, 1, Len(q) - 1)) ELSE q

Strip(q) == RStrip(LStrip(q))

\* f"{text_field}~='{sanitized}'"
FieldQuery(text_field, v) == <<text_field, "~", "=", Quote>> \o v \o <<Quote>>

\* mutant: the structured query is sanitized like free text
SanitizedQuery(q) == SanitizeQueryValue(q)

\* handle_search line 104: the structured query is passed as it came
StructuredQuery(q) == q

\* mutant: the last records are kept
SliceFromEnd(s, limit) ==
    SubSeq(s, Len(s) - limit + 1, Len(s))

\* results[:limit]
Slice(s, limit) ==
    LET n == IF limit >= 0
             THEN (IF limit < Len(s) THEN limit ELSE Len(s))
             ELSE (IF Len(s) + limit > 0 THEN Len(s) + limit ELSE 0)
    IN  SubSeq(s, 1, n)

\* mutant: every record is appended, whether its id was seen or not
RECURSIVE MergeAll(_, _, _)
MergeAll(merged, seen, field_results) ==
    IF field_results = <<>> THEN [results |-> merged, seen_ids |-> seen]
    ELSE MergeAll(Append(merged, Head(field_results)),
                  seen \cup {Head(field_results).id}, Tail(field_results))

\* handle_search lines 116-120: `for record in field_results:`
RECURSIVE Merge(_, _, _)
Merge(merged, seen, field_results) ==
    IF field_results = <<>> THEN [results |-> merged, seen_ids |-> seen]
    ELSE LET record == Head(field_results)
             rid == record.id
         IN  IF rid \notin seen
             THEN Merge(Append(merged, record), seen \cup {rid}, Tail(field_results))
             ELSE Merge(merged, seen, Tail(field_results))

\* the JSON values of a field of data, contract_data or company_data
TextValue(s) == [t |-> "str", s |-> s, n |-> 0]
NullValue == [t |-> "null", s |-> <<>>, n |-> 0]
IntValue(n) == [t |-> "int", s |-> <<>>, n |-> n]
BoolValue(b) == [t |-> "bool", s |-> <<>>, n |-> IF b THEN 1 ELSE 0]

\* mutant: `if v`, which drops every falsy value, 0 and false included
StripFalsyValues(data) ==
    [k \in {k \in DOMAIN data : data[k] \notin {NullValue, TextValue(<<>>), IntValue(0),
                                                 BoolValue(FALSE)}} |-> data[k]]

\* tool_handlers._strip_empty_values: `if v is not None and v != ""`
StripEmptyValues(data) ==
    [k \in {k \in DOMAIN data : data[k] # NullValue /\ data[k] # TextValue(<<>>)}
        |-> data[k]]

\* base64.b64decode, for the contents below: the bytes, or None when it raises
B64Decode(content) ==
    CASE content = "" -> <<"">>
      [] content = "aGk=" -> <<"hi">>
      [] OTHER -> None

\* mutant: the envelope carries the record id found in the arguments
RecordIdOfArguments(action) == ArgGet(arguments, "record_id", None)

\* the record_id a handler passes to _format_response and _format_error:
\* handle_search, handle_create and handle_upsert pass none
RecordIdOf(action) ==
    IF action \in {"search", "create", "upsert"}
    THEN None
    ELSE ArgGet(arguments, "record_id", None)

\* tool_handlers._format_response
FormatResponse(operation, entity, data, record_id) ==
    ("success" :> TRUE) @@ ("operation" :> operation) @@ ("entity" :> entity.key)
    @@ (IF record_id # None THEN "record_id" :> record_id[1] ELSE EmptyDict)
    @@ (IF data.t = "list" THEN "count" :> Len(data.v) ELSE EmptyDict)
    @@ ("data" :> data)

\* tool_handlers._format_error
FormatError(operation, entity, error, record_id) ==
    ("success" :> FALSE) @@ ("operation" :> operation) @@ ("entity" :> entity.key)
    @@ ("error" :> error)
    @@ (IF record_id # None THEN "record_id" :> record_id[1] ELSE EmptyDict)

\* the client method each handler calls
ClientMethod(action) ==
    CASE action = "search" -> "search_records"
      [] action = "get" -> "get_record"
      [] action = "create" -> "create_record"
      [] action = "update" -> "update_record"
      [] action = "delete" -> "delete_record"
      [] action = "upsert" -> "upsert_record"
      [] action = "action_button" -> "trigger_action_button"
      [] OTHER -> action

\* ---- the inputs of a call ----
Queries ==
    {<<>>, <<" ">>,
     <<"acme">>, <<"o", "'", "neil">>, <<"a", ";", "-", "-", "b">>, <<"=", "5">>,
     <<"status", "=", "Active">>,
     <<"name", " ", "=", " ", "'", "o", "'", "'", "neil", ";", "-", "-", "'">>,
     <<"a", " ", "and", " ", "b">>,
     <<"end", " ", "is", " ", "Null">>}

EmptyValue == TextValue(<<>>)

SomeData ==
    ("company_name" :> TextValue(<<"Acme">>)) @@ ("notes" :> EmptyValue)
        @@ ("owner" :> NullValue) @@ ("amount" :> IntValue(0))
        @@ ("auto_renew" :> BoolValue(FALSE))

QueryValues == {None} \cup {<<q>> : q \in Queries}
LimitValues == {None} \cup {<<l>> : l \in (-1)..MaxRecords}
RecordIdValues == {None, <<7>>}
DataValues == {None, <<SomeData>>}
ContentValues == {None, <<"aGk=">>, <<"aGk">>}

\* the arguments a handler reads, and record_id, which any caller may send
ArgKeysOf(action) ==
    CASE action = "search" -> {"query", "limit", "record_id"}
      [] action \in {"create", "update", "upsert"} -> {"data", "record_id"}
      [] action = "attach_file" -> {"file_content_base64", "record_id"}
      [] OTHER -> {"record_id"}

ArgumentMap(keys, q, l, r, d, c) ==
    [k \in keys |->
        CASE k = "query" -> q
          [] k = "limit" -> l
          [] k = "record_id" -> r
          [] k = "data" -> d
          [] k = "file_content_base64" -> c]

\* one of the values of a key that is sent, None for a key that is not
ValuesFor(key, keys, values) == IF key \in keys THEN values ELSE {None}

\* the records a remote search returns: ids, and the search that returned the copy
SearchResults(n) ==
    UNION {[1..k -> [id : 1..MaxRecords, copy : {n}]] : k \in 0..MaxRecords}

\* what the n-th search call returns or raises
SearchReplies(n) ==
    {[t |-> "list", v |-> l] : l \in SearchResults(n)}
    \cup {[t |-> "dict", v |-> <<>>], [t |-> "raise", v |-> <<>>]}

\* what the client operation of a handler returns or raises
ClientReplies(action) ==
    {[t |-> "dict", v |-> <<>>], [t |-> "raise", v |-> <<>>]}
    \cup (IF action \in {"retrieve_attachment", "get_attachment_info"}
          THEN {[t |-> "list", v |-> <<[id |-> 1, copy |-> 1]>>]}
          ELSE {})

NoResults == [t |-> "none", v |-> <<>>]

HandlerIdle ==
    /\ name = ""
    /\ arguments = EmptyDict
    /\ handler_pc = "idle"
    /\ calls = <<>>
    /\ returned = <<>>
    /\ seen_ids = {}
    /\ results = NoResults
    /\ envelope = EmptyDict

\* dispatch_tool_call(name, arguments, client, tool_dispatch) is called
HandlerInit ==
    /\ name \in DOMAIN ToolDispatch \cup {"agiloft_search_unknown"}
    /\ LET keys == IF name \in DOMAIN ToolDispatch
                   THEN ArgKeysOf(ToolDispatch[name][2]) ELSE {}
       IN  \E sent \in SUBSET keys :
           \E q \in ValuesFor("query", sent, QueryValues),
              l \in ValuesFor("limit", sent, LimitValues),
              r \in ValuesFor("record_id", sent, RecordIdValues),
              d \in ValuesFor("data", sent, DataValues),
              c \in ValuesFor("file_content_base64", sent, ContentValues) :
                arguments = ArgumentMap(sent, q, l, r, d, c)
    /\ handler_pc = "called"
    /\ calls = <<>>
    /\ returned = <<>>
    /\ seen_ids = {}
    /\ results = NoResults
    /\ envelope = EmptyDict

\* `return _format_...`
Return(result) ==
    /\ handler_pc' = "returned"
    /\ envelope' = result

\* an exception leaves dispatch_tool_call
Raise ==
    /\ handler_pc' = "raised"
    /\ UNCHANGED envelope

\* `await client.<method>(entity.api_path, ...)`
ClientCall(method, entity, record_id, query, data) ==
    calls' = Append(calls, [method |-> method, path |-> entity.api_path,
                            record_id |-> record_id, query |-> query, data |-> data])

\* handle_search up to its first remote search
HandleSearch(entity) ==
    LET query == ArgGet(arguments, "query", <<<<>>>>)
    IN  IF query = None
        THEN /\ Return(FormatError("search", entity,
                                   "expected string or bytes-like object", None))
             /\ UNCHANGED <<calls, seen_ids, results>>
        ELSE IF IsStructuredQuery(query[1])
        THEN /\ ClientCall("search_records", entity, None,
                           <<StructuredQuery(query[1])>>, None)
             /\ handler_pc' = "search"
             /\ UNCHANGED <<seen_ids, results, envelope>>
        ELSE IF entity.text_search_fields # <<>> /\ Strip(query[1]) # <<>>
        THEN /\ ClientCall("search_records", entity, None,
                           <<FieldQuery(entity.text_search_fields[1],
                                        SanitizeQueryValue(query[1]))>>, None)
             /\ handler_pc' = "search_text"
             /\ seen_ids' = {}
             /\ results' = [t |-> "list", v |-> <<>>]
             /\ UNCHANGED envelope
        ELSE /\ ClientCall("search_records", entity, None, query, None)
             /\ handler_pc' = "search"
             /\ UNCHANGED <<seen_ids, results, envelope>>

\* handle_create, handle_update, handle_upsert up to the remote call
HandleWrite(entity, action) ==
    LET data == ArgGet(arguments, "data", <<EmptyDict>>)
    IN  IF data = None
        THEN /\ Raise
             /\ UNCHANGED calls
        ELSE /\ ClientCall(ClientMethod(action), entity, RecordIdOf(action),
                           IF action = "upsert" THEN <<<<>>>> ELSE None,
                           <<StripEmptyValues(data[1])>>)
             /\ handler_pc' = "await"
             /\ UNCHANGED envelope

\* handle_attach_file up to the remote call
HandleAttachFile(entity) ==
    LET content == ArgGet(arguments, "file_content_base64", <<"">>)
        file_data == IF content = None THEN None ELSE B64Decode(content[1])
    IN  IF file_data = None
        THEN /\ Return(FormatError("attach_file", entity, "Invalid base64 content",
                                   RecordIdOf("attach_file")))
             /\ UNCHANGED calls
        ELSE /\ ClientCall("attach_file", entity, RecordIdOf("attach_file"), None,
                           file_data)
             /\ handler_pc' = "await"
             /\ UNCHANGED envelope

\* handle_action_button, handle_evaluate_format: the client has no such method
HandleWithoutMethod(entity, action) ==
    /\ Return(FormatError(action, entity,
                          "'AgiloftClient' object has no attribute", RecordIdOf(action)))
    /\ UNCHANGED calls

\* handle_get, handle_delete and the attachment handlers up to the remote call
HandleById(entity, action) ==
    /\ ClientCall(ClientMethod(action), entity, RecordIdOf(action), None, None)
    /\ handler_pc' = "await"
    /\ UNCHANGED envelope

\* dispatch_tool_call, and the handler it awaits up to the first remote call
DispatchToolCall ==
    /\ handler_pc = "called"
    /\ IF name \notin DOMAIN ToolDispatch
       THEN /\ Raise
            /\ UNCHANGED <<calls, seen_ids, results>>
       ELSE LET entity == ENTITY_REGISTRY[ToolDispatch[name][1]]
                action == ToolDispatch[name][2]
            IN  CASE action = "search" -> HandleSearch(entity)
                  [] action \in {"create", "update", "upsert"} ->
                        HandleWrite(entity, action) /\ UNCHANGED <<seen_ids, results>>
                  [] action = "attach_file" ->
                        HandleAttachFile(entity) /\ UNCHANGED <<seen_ids, results>>
                  [] action \in {"action_button", "evaluate_format"} ->
                        HandleWithoutMethod(entity, action)
                            /\ UNCHANGED <<seen_ids, results>>
                  [] OTHER ->
                        HandleById(entity, action) /\ UNCHANGED <<seen_ids, results>>
    /\ UNCHANGED <<name, arguments, returned, nonHandlerVars>>

\* handle_search lines 124-126: the limit, and the success envelope
FinishSearch(entity, retrieved) ==
    LET limit == ArgGet(arguments, "limit", <<50>>)
    IN  IF retrieved.t # "list"
        THEN Return(FormatResponse("search", entity, retrieved, None))
        ELSE IF limit = None
        THEN Return(FormatError("search", entity,
                                "'>' not supported between 'int' and 'NoneType'", None))
        ELSE IF Len(retrieved.v) > limit[1]
        THEN Return(FormatResponse("search", entity,
                                   [t |-> "list", v |-> Slice(retrieved.v, limit[1])],
                                   None))
        ELSE Return(FormatResponse("search", entity, retrieved, None))

\* the remote search of a structured or unclassified query returns or raises
SearchReply ==
    /\ handler_pc = "search"
    /\ LET entity == ENTITY_REGISTRY[ToolDispatch[name][1]]
       IN  \E reply \in SearchReplies(Len(calls)) :
            /\ returned' = Append(returned, reply)
            /\ IF reply.t = "raise"
               THEN /\ Return(FormatError("search", entity, "Search failed", None))
                    /\ UNCHANGED results
               ELSE /\ results' = reply
                    /\ FinishSearch(entity, reply)
    /\ UNCHANGED <<name, arguments, calls, seen_ids, nonHandlerVars>>

\* the remote search of one text field returns or raises: merge, then the
\* search of the next field or the end of handle_search
SearchTextReply ==
    /\ handler_pc = "search_text"
    /\ LET entity == ENTITY_REGISTRY[ToolDispatch[name][1]]
           text_fields == entity.text_search_fields
           query == ArgGet(arguments, "query", <<<<>>>>)[1]
       IN  \E reply \in SearchReplies(Len(calls)) :
            /\ returned' = Append(returned, reply)
            /\ IF reply.t = "raise"
               THEN /\ Return(FormatError("search", entity, "Search failed", None))
                    /\ UNCHANGED <<calls, seen_ids, results>>
               ELSE IF reply.t # "list"
               THEN /\ Return(FormatError("search", entity,
                                          "'str' object has no attribute 'get'", None))
                    /\ UNCHANGED <<calls, seen_ids, results>>
               ELSE LET merged == Merge(results.v, seen_ids, reply.v)
                        retrieved == [t |-> "list", v |-> merged.results]
                    IN  /\ seen_ids' = merged.seen_ids
                        /\ results' = retrieved
                        /\ IF Len(calls) < Len(text_fields)
                           THEN /\ ClientCall("search_records", entity, None,
                                       <<FieldQuery(text_fields[Len(calls) + 1],
                                                    SanitizeQueryValue(query))>>, None)
                                /\ UNCHANGED <<handler_pc, envelope>>
                           ELSE /\ FinishSearch(entity, retrieved)
                                /\ UNCHANGED calls
    /\ UNCHANGED <<name, arguments, nonHandlerVars>>

\* the remote call of any other handler returns or raises
ClientReply ==
    /\ handler_pc = "await"
    /\ LET entity == ENTITY_REGISTRY[ToolDispatch[name][1]]
           action == ToolDispatch[name][2]
       IN  \E reply \in ClientReplies(action) :
            /\ returned' = Append(returned, reply)
            /\ IF reply.t = "raise"
               THEN Return(FormatError(action, entity, "HTTP 500", RecordIdOf(action)))
               ELSE Return(FormatResponse(action, entity, reply, RecordIdOf(action)))
    /\ UNCHANGED <<name, arguments, calls, seen_ids, results, nonHandlerVars>>

(***************************************************************************)
(* AgiloftClient._extract_record and get_record.  A parsed JSON value is a *)
(* record of its type t and its content: b, n, s, l or d, by type.         *)
(***************************************************************************)
Null == [t |-> "null", b |-> FALSE, n |-> 0, s |-> "", l |-> <<>>, d |-> EmptyDict]
Bool(b) == [Null EXCEPT !.t = "bool", !.b = b]
Number(n) == [Null EXCEPT !.t = "int", !.n = n]
Str(str) == [Null EXCEPT !.t = "str", !.s = str]
Dict(d) == [Null EXCEPT !.t = "dict", !.d = d]
List(l) == [Null EXCEPT !.t = "list", !.l = l]

\* the keys _extract_record does not count
MetaKeys == {"success", "message", "errors"}

Returns(x) == [raised |-> FALSE, value |-> x]
\* f"Record {record_id} not found in response. Keys: {keys_info}"
RaisesAPIError(record_id) ==
    [raised |-> TRUE,
     error |-> [type |-> "AgiloftAPIError",
                message |-> "Record {record_id} not found in response",
                record_id |-> <<record_id>>]]

\* record.items() of a value that is no mapping
RaisesAttributeError ==
    [raised |-> TRUE,
     error |-> [type |-> "AttributeError", message |-> "has no attribute 'items'",
                record_id |-> <<>>]]

\* mutant: only a sequence of one element is taken for a record
ExtractFromSingleton(response) ==
    response.t = "list" /\ Len(response.l) = 1

\* _extract_record line 210: the sequences a record is taken from
ExtractFromList(response) ==
    response.t = "list" /\ Len(response.l) > 0

\* AgiloftClient._extract_record
ExtractRecord(response, record_id) ==
    LET non_meta_keys ==
            IF response.t = "dict" THEN DOMAIN response.d \ MetaKeys ELSE {}
        only == CHOOSE k \in non_meta_keys : TRUE
    IN  IF response.t = "dict" /\ "result" \in DOMAIN response.d
        THEN Returns(response.d["result"])
        ELSE IF /\ response.t = "dict"
                /\ Cardinality(non_meta_keys) = 1
                /\ response.d[only].t = "dict"
        THEN Returns(response.d[only])
        ELSE IF response.t = "dict" /\ "id" \in DOMAIN response.d
        THEN Returns(response)
        ELSE IF ExtractFromList(response)
        THEN Returns(response.l[1])
        ELSE RaisesAPIError(record_id)

\* get_record lines 254-256: the client-side field filter
FilterFields(record, fields) ==
    IF fields = None \/ fields[1] = <<>>
    THEN Returns(record)
    ELSE IF record.t # "dict"
    THEN RaisesAttributeError
    ELSE Returns(Dict([k \in {k \in DOMAIN record.d :
                                \E i \in DOMAIN fields[1] : fields[1][i] = k}
                        |-> record.d[k]]))

\* ---- the responses of the remote ----
RecordA == Dict(("id" :> Number(7)) @@ ("x" :> Str("y")))
RecordB == Dict("id" :> Number(8))

\* a key that is absent, or the key with one of the values
Entry(key, values) == {EmptyDict} \cup {key :> x : x \in values}

DictResponses ==
    {Dict(a @@ b @@ c @@ d @@ e) :
        a \in Entry("result", {RecordA, Null}),
        b \in Entry("contract", {RecordA, Str("n/a")}),
        c \in Entry("id", {Number(7)}),
        d \in Entry("success", {Bool(TRUE)}),
        e \in Entry("count", {Number(1)})}

ListResponses ==
    {List(l) : l \in UNION {[1..k -> {RecordA, RecordB, Null}] : k \in 0..MaxItems}}

GetResponses == DictResponses \cup ListResponses \cup {Null, Str("Not Found")}

NoError == [type |-> "", message |-> "", record_id |-> <<>>]

GetIdle ==
    /\ get_response = Null
    /\ get_record_id = 0
    /\ get_fields = None
    /\ get_pc = "idle"
    /\ get_result = Null
    /\ get_error = NoError

\* get_record(entity_path, record_id, fields) has its response from _make_request
GetInit ==
    /\ get_response \in GetResponses
    /\ get_record_id \in {7, 999}
    /\ get_fields \in {None, <<<<>>>>, <<<<"id", "name">>>>}
    /\ get_pc = "called"
    /\ get_result = Null
    /\ get_error = NoError

\* get_record from line 253 on: _extract_record, then the field filter
GetRecord ==
    /\ get_pc = "called"
    /\ LET extracted == ExtractRecord(get_response, get_record_id)
           outcome == IF extracted.raised
                      THEN extracted
                      ELSE FilterFields(extracted.value, get_fields)
       IN  IF outcome.raised
           THEN /\ get_pc' = "raised"
                /\ get_error' = outcome.error
                /\ UNCHANGED get_result
           ELSE /\ get_pc' = "returned"
                /\ get_result' = outcome.value
                /\ UNCHANGED get_error
    /\ UNCHANGED <<get_response, get_record_id, get_fields, nonGetVars>>

(***************************************************************************)
(* The composite workflows (workflow_handlers.py).  A handler runs up to   *)
(* its next `await client....`; the reply of the remote service resumes    *)
(* it.  Text is a sequence of tokens, so "" is <<>>.                       *)
(***************************************************************************)
WorkflowIdle ==
    /\ workflow = "none"
    /\ wf_arguments = EmptyDict
    /\ wf_env = EmptyDict
    /\ wf_pc = "idle"
    /\ wf_data = EmptyDict
    /\ wf_warnings = <<>>
    /\ wf_next_steps = <<>>
    /\ wf_calls = <<>>
    /\ wf_replies = <<>>
    /\ wf_result = EmptyDict

\* f":{text}"
Colon(text) == <<":">> \o text

\* d[key] = v
Put(d, key, v) == (key :> v) @@ d

\* d.get(key, "")
TextOf(d, key) == IF key \in DOMAIN d THEN d[key] ELSE <<>>

\* workflow_handlers._workflow_response
WorkflowResponse(operation, data, next_steps, warnings) ==
    ("success" :> TRUE) @@ ("operation" :> operation) @@ ("data" :> data)
    @@ (IF next_steps # <<>> THEN "next_steps" :> next_steps ELSE EmptyDict)
    @@ (IF warnings # <<>> THEN "warnings" :> warnings ELSE EmptyDict)

\* workflow_handlers._workflow_error
WorkflowError(operation, error, partial_data) ==
    ("success" :> FALSE) @@ ("operation" :> operation) @@ ("error" :> error)
    @@ (IF partial_data # None THEN "partial_data" :> partial_data[1] ELSE EmptyDict)

\* `data if data else None`
DataIfAny(data) == IF DOMAIN data # {} THEN <<data>> ELSE None

\* `await client.<method>(path, ...)`: the handler waits for the reply
Await(label, method, path, arg) ==
    /\ wf_calls' = Append(wf_calls, [method |-> method, path |-> path, arg |-> arg])
    /\ wf_pc' = label
    /\ UNCHANGED wf_result

\* `return _workflow_...`
WorkflowReturn(result) ==
    /\ wf_pc' = "returned"
    /\ wf_result' = result
    /\ UNCHANGED wf_calls

\* the handler's data, warnings and next_steps when it next awaits or returns
Locals(data, warnings, next_steps) ==
    /\ wf_data' = data
    /\ wf_warnings' = warnings
    /\ wf_next_steps' = next_steps

\* what a remote operation gives: a value, or an exception
Returned(v) == [t |-> "ok", v |-> v]
Raised == [t |-> "raise", v |-> <<>>]

\* the records the remote service holds
ContractTypeRecords ==
    [id : {1}, contract_type : {<<"NDA">>}, party_type : {<<>>, <<"Vendor">>, <<"Customer">>}]

CompanyRecords ==
    [id : {10}, company_name : {<<"Acme">>},
     type_of_company : {<<>>, <<"Vendor">>, <<"Customer">>},
     status : {<<"Active">>, <<"Inactive">>}]

ActiveVendors ==
    {r \in CompanyRecords :
        r.status = <<"Active">> /\ r.type_of_company = <<"Vendor">>}

\* search_records: the records found, at most one here, or an exception
SearchReplyOf(records) ==
    {Raised, Returned(<<>>)} \cup {Returned(<<r>>) : r \in records}

(***************************************************************************)
(* handle_preflight_create_contract                                        *)
(***************************************************************************)
\* up to the first search: the active types, or the type named
HandlePreflightCreateContract ==
    /\ workflow = "preflight_create_contract"
    /\ wf_pc = "called"
    /\ Locals(EmptyDict, <<>>, <<>>)
    /\ IF TextOf(wf_arguments, "contract_type") = <<>>
       THEN Await("active_types", "search_records", "/contract_type",
                  <<"status=Active">>)
       ELSE Await("type_results", "search_records", "/contract_type",
                  <<"contract_type='">> \o wf_arguments.contract_type
                      \o <<"' AND status=Active">>)
    /\ UNCHANGED <<workflow, wf_arguments, wf_env, wf_replies, nonWorkflowVars>>

\* no contract type was named: the active types are returned for selection
PreflightActiveTypes ==
    /\ workflow = "preflight_create_contract"
    /\ wf_pc = "active_types"
    /\ \E reply \in SearchReplyOf(ContractTypeRecords) :
         /\ wf_replies' = Append(wf_replies, reply)
         /\ IF reply = Raised
            THEN /\ WorkflowReturn(WorkflowError(workflow, "str(e)", None))
                 /\ UNCHANGED <<wf_data, wf_warnings, wf_next_steps>>
            ELSE LET data == Put(Put(wf_data, "available_contract_types", reply.v),
                                 "ready_to_create", FALSE)
                     next_steps == Append(wf_next_steps, "select a contract type")
                 IN  /\ Locals(data, wf_warnings, next_steps)
                     /\ WorkflowReturn(WorkflowResponse(workflow, data, next_steps,
                                                        wf_warnings))
    /\ UNCHANGED <<workflow, wf_arguments, wf_env, nonWorkflowVars>>

\* mutant: the warnings do not count
ReadyDespiteWarnings(ready_to_create, warnings) == ready_to_create

\* data["ready_to_create"] = ready_to_create and not warnings
ReadyToCreate(ready_to_create, warnings) == ready_to_create /\ warnings = <<>>

\* steps 2 and 3 once the company, if one was named, has been looked up
PreflightFinish(data, warnings, next_steps, ready_to_create) ==
    LET contract_type_name == wf_arguments.contract_type
        company_name == TextOf(wf_arguments, "company_name")
        required_fields ==
            (IF company_name # <<>> /\ "company" \in DOMAIN data
             THEN "company_name" :> Colon(company_name) ELSE EmptyDict)
            @@ [record_type |-> <<"Contract, Child Contract, or Amendment">>,
                auto_renewal_term_in_months |-> <<"integer">>,
                confidential |-> <<"string">>,
                evaluation_frequency |-> <<"integer">>,
                contract_type |-> Colon(contract_type_name)]
        linked_fields ==
            [contract_type |-> Colon(contract_type_name),
             company_name |-> IF company_name # <<>> THEN Colon(company_name)
                              ELSE <<"(provide company name with : prefix)">>,
             internal_contract_owner |-> <<":<owner name> (e.g. :Robert Barash)">>]
        ready == ReadyToCreate(ready_to_create, warnings)
        result == Put(Put(Put(Put(data, "required_fields", required_fields),
                              "linked_fields_warning", <<"CRITICAL">>),
                          "linked_fields", linked_fields),
                      "ready_to_create", ready)
        steps == IF ready THEN Append(next_steps, "all validations passed")
                 ELSE next_steps
    IN  /\ Locals(result, warnings, steps)
        /\ WorkflowReturn(WorkflowResponse(workflow, result, steps, warnings))

\* the reply to the search for the type named
PreflightTypeResults ==
    /\ workflow = "preflight_create_contract"
    /\ wf_pc = "type_results"
    /\ \E reply \in SearchReplyOf(ContractTypeRecords) :
         /\ wf_replies' = Append(wf_replies, reply)
         /\ CASE reply = Raised ->
                   /\ WorkflowReturn(WorkflowError(workflow, "str(e)", None))
                   /\ UNCHANGED <<wf_data, wf_warnings, wf_next_steps>>
              [] reply = Returned(<<>>) ->
                   /\ Locals(Put(wf_data, "ready_to_create", FALSE),
                             Append(wf_warnings, "contract type not found or not active"),
                             wf_next_steps)
                   /\ Await("fallback_types", "search_records", "/contract_type",
                            <<"status=Active">>)
              [] OTHER ->
                   LET data == Put(wf_data, "contract_type", reply.v[1])
                       company_name == TextOf(wf_arguments, "company_name")
                   IN  IF company_name # <<>>
                       THEN /\ Locals(data, wf_warnings, wf_next_steps)
                            /\ Await("company_results", "search_records", "/company",
                                     <<"company_name~='">> \o company_name \o <<"'">>)
                       ELSE PreflightFinish(data, wf_warnings,
                                            Append(wf_next_steps, "provide a company_name"),
                                            TRUE)
    /\ UNCHANGED <<workflow, wf_arguments, wf_env, nonWorkflowVars>>

\* the type was not found: the active types are fetched as a fallback
PreflightFallbackTypes ==
    /\ workflow = "preflight_create_contract"
    /\ wf_pc = "fallback_types"
    /\ \E reply \in SearchReplyOf(ContractTypeRecords) :
         /\ wf_replies' = Append(wf_replies, reply)
         /\ IF reply = Raised
            THEN /\ WorkflowReturn(WorkflowError(workflow, "str(e)", None))
                 /\ UNCHANGED <<wf_data, wf_warnings, wf_next_steps>>
            ELSE LET data == Put(wf_data, "available_contract_types", reply.v)
                     next_steps == Append(wf_next_steps, "choose an active contract type")
                 IN  /\ Locals(data, wf_warnings, next_steps)
                     /\ WorkflowReturn(WorkflowResponse(workflow, data, next_steps,
                                                        wf_warnings))
    /\ UNCHANGED <<workflow, wf_arguments, wf_env, nonWorkflowVars>>

\* the reply to the search for the company: found or not, of the expected
\* party type or not, Active or not
PreflightCompanyResults ==
    /\ workflow = "preflight_create_contract"
    /\ wf_pc = "company_results"
    /\ \E reply \in SearchReplyOf(CompanyRecords) :
         /\ wf_replies' = Append(wf_replies, reply)
         /\ CASE reply = Raised ->
                   /\ WorkflowReturn(WorkflowError(workflow, "str(e)", None))
                   /\ UNCHANGED <<wf_data, wf_warnings, wf_next_steps>>
              [] reply = Returned(<<>>) ->
                   PreflightFinish(wf_data,
                                   Append(wf_warnings, "company not found"),
                                   Append(wf_next_steps, "create the company first"),
                                   FALSE)
              [] OTHER ->
                   LET company == reply.v[1]
                       party_type == TextOf(wf_data.contract_type, "party_type")
                       company_type == TextOf(company, "type_of_company")
                       mismatch == IF /\ party_type # <<>>
                                      /\ company_type # <<>>
                                      /\ party_type # company_type
                                   THEN <<"type mismatch">> ELSE <<>>
                       inactive == IF company.status # <<"Active">>
                                   THEN <<"company not Active">> ELSE <<>>
                   IN  PreflightFinish(Put(wf_data, "company", company),
                                       wf_warnings \o mismatch \o inactive,
                                       wf_next_steps, TRUE)
    /\ UNCHANGED <<workflow, wf_arguments, wf_env, nonWorkflowVars>>

(***************************************************************************)
(* handle_create_contract_with_company                                     *)
(***************************************************************************)
CONTRACT_LINKED_FIELDS == {"company_name", "contract_type", "internal_contract_owner"}

\* mutant: the linked fields are sent as given
LinkedFieldsAsGiven(data, linked_fields) == data

\* workflow_handlers._ensure_linked_prefix
EnsureLinkedPrefix(data, linked_fields) ==
    [k \in DOMAIN data |->
        IF /\ k \in linked_fields
           /\ data[k].t = "str"
           /\ data[k].s # <<>>
           /\ ~StartsWith(data[k].s, <<":">>)
        THEN TextValue(Colon(data[k].s))
        ELSE data[k]]

\* {k: v for k, v in data.items() if v is not None and v != ""}
WithoutEmpty(data) ==
    [k \in {k \in DOMAIN data : data[k] # NullValue /\ data[k] # TextValue(<<>>)}
        |-> data[k]]

\* create_record: the remote result, or an exception
CreateReplies == {Raised, Returned([result |-> 42])}

\* up to the search for the company
HandleCreateContractWithCompany ==
    /\ workflow = "create_contract_with_company"
    /\ wf_pc = "called"
    /\ Locals(EmptyDict, <<>>, <<>>)
    /\ Await("company_results", "search_records", "/company",
             <<"company_name='">> \o TextOf(wf_arguments, "company_name") \o <<"'">>)
    /\ UNCHANGED <<workflow, wf_arguments, wf_env, wf_replies, nonWorkflowVars>>

\* step 2 up to create_record("/contract", ...)
CreateLinkedContract ==
    LET company_name == TextOf(wf_arguments, "company_name")
        contract_data == Put(ArgGet(wf_arguments, "contract_data", EmptyDict),
                             "company_name", TextValue(Colon(company_name)))
    IN  Await("contract_created", "create_record", "/contract",
              WithoutEmpty(EnsureLinkedPrefix(contract_data, CONTRACT_LINKED_FIELDS)))

\* step 1: the company was found, is created, or is missing
CreateContractCompanyResults ==
    /\ workflow = "create_contract_with_company"
    /\ wf_pc = "company_results"
    /\ \E reply \in SearchReplyOf(CompanyRecords) :
         /\ wf_replies' = Append(wf_replies, reply)
         /\ CASE reply = Raised ->
                   /\ WorkflowReturn(WorkflowError(workflow, "str(e)", DataIfAny(wf_data)))
                   /\ UNCHANGED <<wf_data, wf_warnings, wf_next_steps>>
              [] reply # Raised /\ reply.v # <<>> ->
                   /\ Locals(Put(Put(wf_data, "company", reply.v[1]),
                                 "company_action", "found_existing"),
                             wf_warnings, wf_next_steps)
                   /\ CreateLinkedContract
              [] reply = Returned(<<>>)
                   /\ ArgGet(wf_arguments, "create_company_if_missing", FALSE) ->
                   LET company_name == TextOf(wf_arguments, "company_name")
                       create_data ==
                           Put(ArgGet(wf_arguments, "company_data", EmptyDict),
                               "company_name", TextValue(company_name))
                   IN  /\ Await("company_created", "create_record", "/company",
                                WithoutEmpty(create_data))
                       /\ UNCHANGED <<wf_data, wf_warnings, wf_next_steps>>
              [] OTHER ->
                   /\ WorkflowReturn(WorkflowError(workflow, "company not found", None))
                   /\ UNCHANGED <<wf_data, wf_warnings, wf_next_steps>>
    /\ UNCHANGED <<workflow, wf_arguments, wf_env, nonWorkflowVars>>

\* the reply to create_record("/company", ...)
CreateContractCompanyCreated ==
    /\ workflow = "create_contract_with_company"
    /\ wf_pc = "company_created"
    /\ \E reply \in CreateReplies :
         /\ wf_replies' = Append(wf_replies, reply)
         /\ IF reply = Raised
            THEN /\ WorkflowReturn(WorkflowError(workflow, "str(e)", DataIfAny(wf_data)))
                 /\ UNCHANGED <<wf_data, wf_warnings, wf_next_steps>>
            ELSE /\ Locals(Put(Put(wf_data, "company", reply.v),
                               "company_action", "created_new"),
                           wf_warnings, wf_next_steps)
                 /\ CreateLinkedContract
    /\ UNCHANGED <<workflow, wf_arguments, wf_env, nonWorkflowVars>>

\* the reply to create_record("/contract", ...)
CreateContractCreated ==
    /\ workflow = "create_contract_with_company"
    /\ wf_pc = "contract_created"
    /\ \E reply \in CreateReplies :
         /\ wf_replies' = Append(wf_replies, reply)
         /\ IF reply = Raised
            THEN /\ WorkflowReturn(WorkflowError(workflow, "str(e)", DataIfAny(wf_data)))
                 /\ UNCHANGED <<wf_data, wf_warnings, wf_next_steps>>
            ELSE LET data == Put(wf_data, "contract", reply.v)
                     next_steps == Append(wf_next_steps, "contract created")
                 IN  /\ Locals(data, wf_warnings, next_steps)
                     /\ WorkflowReturn(WorkflowResponse(workflow, data, next_steps,
                                                        wf_warnings))
    /\ UNCHANGED <<workflow, wf_arguments, wf_env, nonWorkflowVars>>

(***************************************************************************)
(* Dates.  An end date as the remote service returns it is empty, a text   *)
(* that is no date, or a text whose first ten characters are the ISO date  *)
(* of the day `day` days after today.  The clock is datetime.now(): the    *)
(* time of day is 0 at midnight and positive later.                        *)
(***************************************************************************)
EndDays == {-1, 0, 1, 10, 30, 31, 45, 60, 61, 80}

EndDates ==
    [text : {"", "not a date"}, day : {0}]
    \cup [text : {"YYYY-MM-DD"}, day : EndDays]
    \cup [text : {"YYYY-MM-DDTHH:MM:SS"}, day : {10}]

\* datetime.strptime(str(end_date_str)[:10], "%Y-%m-%d"): midnight of the
\* day named, or None when ValueError is raised
Strptime(end_date_str) ==
    IF end_date_str.text \in {"YYYY-MM-DD", "YYYY-MM-DDTHH:MM:SS"}
    THEN <<end_date_str.day>>
    ELSE None

\* (end_date - now).days: timedelta.days is the floor of the difference
DaysRemaining(end_date, time_of_day) ==
    IF time_of_day > 0 THEN end_date - 1 ELSE end_date

(***************************************************************************)
(* handle_get_contract_summary                                             *)
(***************************************************************************)
\* str.lstrip(":")
RECURSIVE LStripColon(_)
LStripColon(s) == IF s # <<>> /\ Head(s) = ":" THEN LStripColon(Tail(s)) ELSE s

\* the end dates of the contract summarised: those above and the days around
\* the 90-day mark
SummaryEndDates == EndDates \cup [text : {"YYYY-MM-DD"}, day : {90, 91, 92, 120}]

\* the contract get_record returns
SummaryContracts ==
    [id : {7},
     company_name : {<<>>, <<"Acme">>, <<":", "Acme">>},
     contract_end_date : SummaryEndDates,
     contract_amount : {0, 100},
     internal_contract_owner : {<<>>, <<"Robert">>},
     date_signed : {<<>>, <<"2024-01-01">>},
     wfstate : {<<"Active">>, <<"Draft">>}]

\* mutant: a contract with 0 days remaining counts as expired
DateHealthFromTomorrow(days_remaining) ==
    IF days_remaining <= 0 THEN <<"EXPIRED">>
    ELSE IF days_remaining <= 30 THEN <<"URGENT">>
    ELSE IF days_remaining <= 90 THEN <<"review soon">>
    ELSE <<>>

\* the date flag of step 4
DateHealth(days_remaining) ==
    IF days_remaining < 0 THEN <<"EXPIRED">>
    ELSE IF days_remaining <= 30 THEN <<"URGENT">>
    ELSE IF days_remaining <= 90 THEN <<"review soon">>
    ELSE <<>>

\* up to get_record("/contract", contract_id, ...)
HandleGetContractSummary ==
    /\ workflow = "get_contract_summary"
    /\ wf_pc = "called"
    /\ Locals(EmptyDict, <<>>, <<>>)
    /\ Await("contract", "get_record", "/contract", wf_arguments.contract_id)
    /\ UNCHANGED <<workflow, wf_arguments, wf_env, wf_replies, nonWorkflowVars>>

\* step 3 up to get_attachment_info("/contract", contract_id, "attached_file")
CheckAttachments ==
    Await("attachments", "get_attachment_info", "/contract", wf_arguments.contract_id)

\* step 1: the contract; step 2 up to the search for its company
SummaryContract ==
    /\ workflow = "get_contract_summary"
    /\ wf_pc = "contract"
    /\ \E reply \in {Raised} \cup {Returned(c) : c \in SummaryContracts} :
         /\ wf_replies' = Append(wf_replies, reply)
         /\ IF reply = Raised
            THEN /\ WorkflowReturn(WorkflowError(workflow, "str(e)", DataIfAny(wf_data)))
                 /\ UNCHANGED <<wf_data, wf_warnings, wf_next_steps>>
            ELSE /\ Locals(Put(wf_data, "contract", reply.v), wf_warnings, wf_next_steps)
                 /\ IF reply.v.company_name # <<>>
                    THEN Await("company", "search_records", "/company",
                               <<"company_name='">> \o LStripColon(reply.v.company_name)
                                   \o <<"'">>)
                    ELSE CheckAttachments
    /\ UNCHANGED <<workflow, wf_arguments, wf_env, nonWorkflowVars>>

\* step 2: the company, a warning when the search fails
SummaryCompany ==
    /\ workflow = "get_contract_summary"
    /\ wf_pc = "company"
    /\ \E reply \in SearchReplyOf(ActiveVendors) :
         /\ wf_replies' = Append(wf_replies, reply)
         /\ /\ CASE reply = Raised ->
                      Locals(wf_data,
                             Append(wf_warnings, "could not fetch company details"),
                             wf_next_steps)
                 [] reply = Returned(<<>>) ->
                      UNCHANGED <<wf_data, wf_warnings, wf_next_steps>>
                 [] OTHER ->
                      Locals(Put(wf_data, "company", reply.v[1]), wf_warnings,
                             wf_next_steps)
            /\ CheckAttachments
    /\ UNCHANGED <<workflow, wf_arguments, wf_env, nonWorkflowVars>>

\* step 3: the attachments; step 4: the health checks
SummaryAttachments ==
    /\ workflow = "get_contract_summary"
    /\ wf_pc = "attachments"
    /\ \E reply \in {Raised, Returned([count |-> 1])} :
         /\ wf_replies' = Append(wf_replies, reply)
         /\ LET contract == wf_data.contract
                attachments == IF reply = Raised
                               THEN [count |-> 0, note |-> "No attachments"]
                               ELSE reply.v
                end_date == Strptime(contract.contract_end_date)
                dated == contract.contract_end_date.text # "" /\ end_date # None
                days_remaining == DaysRemaining(end_date[1], wf_env.time_of_day)
                health_issues ==
                   (IF dated THEN DateHealth(days_remaining) ELSE <<>>)
                   \o (IF contract.contract_amount = 0
                       THEN <<"Missing contract amount">> ELSE <<>>)
                   \o (IF contract.internal_contract_owner = <<>>
                       THEN <<"No contract owner assigned">> ELSE <<>>)
                   \o (IF contract.date_signed = <<>>
                       THEN <<"Contract not yet signed">> ELSE <<>>)
                   \o (IF contract.wfstate \in {<<"Draft">>, <<"Cancelled">>, <<"Expired">>}
                       THEN <<"Contract status">> ELSE <<>>)
                data ==
                   (IF health_issues # <<>> THEN "health_issues" :> health_issues
                    ELSE EmptyDict)
                   @@ (IF dated THEN "days_remaining" :> days_remaining ELSE EmptyDict)
                   @@ Put(wf_data, "attachments", attachments)
                next_steps == Append(wf_next_steps, "available actions")
            IN  /\ Locals(data, wf_warnings, next_steps)
                /\ WorkflowReturn(WorkflowResponse(workflow, data, next_steps, wf_warnings))
    /\ UNCHANGED <<workflow, wf_arguments, wf_env, nonWorkflowVars>>

(***************************************************************************)
(* handle_find_expiring_contracts                                          *)
(***************************************************************************)
\* the contracts search_records returns
ContractLists ==
    UNION {{[i \in 1..n |-> [id |-> i, contract_end_date |-> dates[i]]] :
              dates \in [1..n -> EndDates]} : n \in 0..MaxContracts}

\* mutant: the last day counts as expired
UrgencyFromTomorrow(days_remaining) ==
    IF days_remaining <= 0 THEN "EXPIRED"
    ELSE IF days_remaining <= 30 THEN "URGENT"
    ELSE IF days_remaining <= 60 THEN "UPCOMING"
    ELSE "PLANNING"

\* the urgency of a contract with days_remaining days left
Urgency(days_remaining) ==
    IF days_remaining < 0 THEN "EXPIRED"
    ELSE IF days_remaining <= 30 THEN "URGENT"
    ELSE IF days_remaining <= 60 THEN "UPCOMING"
    ELSE "PLANNING"

\* one pass of the loop: the contract as the loop leaves it
Categorized(contract, time_of_day) ==
    LET end_date == Strptime(contract.contract_end_date)
        days_remaining == DaysRemaining(end_date[1], time_of_day)
    IN  IF contract.contract_end_date.text = "" \/ end_date = None
        THEN contract
        ELSE ("days_remaining" :> days_remaining)
             @@ ("urgency" :> Urgency(days_remaining)) @@ contract

\* up to search_records("/contract", query, ..., limit=200)
HandleFindExpiringContracts ==
    /\ workflow = "find_expiring_contracts"
    /\ wf_pc = "called"
    /\ Locals(EmptyDict, <<>>, <<>>)
    /\ LET days_from_now == ArgGet(wf_arguments, "days_from_now", 90)
           status_filter == TextOf(wf_arguments, "status_filter")
           range == IF ArgGet(wf_arguments, "include_expired", FALSE)
                    THEN <<"contract_end_date<='", <<"today", days_from_now>>, "'">>
                    ELSE <<"contract_end_date>='", <<"today", 0>>,
                           "' AND contract_end_date<='", <<"today", days_from_now>>, "'">>
           query == IF status_filter # <<>>
                    THEN range \o <<" AND wfstate='">> \o status_filter \o <<"'">>
                    ELSE range
       IN  Await("contracts", "search_records", "/contract", query)
    /\ UNCHANGED <<workflow, wf_arguments, wf_env, wf_replies, nonWorkflowVars>>

\* the contracts found are put in their buckets and counted
ExpiringContracts ==
    /\ workflow = "find_expiring_contracts"
    /\ wf_pc = "contracts"
    /\ \E reply \in {Raised} \cup {Returned(l) : l \in ContractLists} :
         /\ wf_replies' = Append(wf_replies, reply)
         /\ IF reply = Raised
            THEN /\ WorkflowReturn(WorkflowError(workflow, "str(e)", None))
                 /\ UNCHANGED <<wf_data, wf_warnings, wf_next_steps>>
            ELSE LET contracts == [i \in 1..Len(reply.v) |->
                                    Categorized(reply.v[i], wf_env.time_of_day)]
                     Unparsed(c) == c.contract_end_date.text = "not a date"
                     Urgent(c) == "urgency" \in DOMAIN c /\ c.urgency = "URGENT"
                     Upcoming(c) == "urgency" \in DOMAIN c /\ c.urgency = "UPCOMING"
                     Planning(c) == "urgency" \in DOMAIN c /\ c.urgency = "PLANNING"
                     Expired(c) == "urgency" \in DOMAIN c /\ c.urgency = "EXPIRED"
                     urgent == SelectSeq(contracts, Urgent)
                     upcoming == SelectSeq(contracts, Upcoming)
                     planning == SelectSeq(contracts, Planning)
                     already_expired == SelectSeq(contracts, Expired)
                     unparsed == SelectSeq(contracts, Unparsed)
                     warnings ==
                         wf_warnings
                         \o [i \in 1..Len(unparsed) |-> <<"could not parse", unparsed[i].id>>]
                     summary ==
                         [total_found |-> Len(reply.v),
                          urgent_count |-> Len(urgent),
                          upcoming_count |-> Len(upcoming),
                          planning_count |-> Len(planning),
                          expired_count |-> Len(already_expired),
                          search_range_days |-> ArgGet(wf_arguments, "days_from_now", 90)]
                     data ==
                         (IF ArgGet(wf_arguments, "include_expired", FALSE)
                          THEN "expired" :> already_expired ELSE EmptyDict)
                         @@ [summary |-> summary, urgent |-> urgent,
                             upcoming |-> upcoming, planning |-> planning]
                     next_steps ==
                         (IF urgent # <<>> THEN <<"review URGENT contracts">> ELSE <<>>)
                         \o (IF upcoming # <<>> THEN <<"schedule renewals">> ELSE <<>>)
                         \o (IF reply.v = <<>> THEN <<"increase days_from_now">> ELSE <<>>)
                 IN  /\ Locals(data, warnings, wf_next_steps \o next_steps)
                     /\ WorkflowReturn(WorkflowResponse(workflow, data,
                                                        wf_next_steps \o next_steps,
                                                        warnings))
    /\ UNCHANGED <<workflow, wf_arguments, wf_env, nonWorkflowVars>>

(***************************************************************************)
(* handle_onboard_company_with_contact                                     *)
(***************************************************************************)
\* company_data.get("company_name", "")
CompanyNameOf(company_data) ==
    IF "company_name" \in DOMAIN company_data
    THEN company_data["company_name"].s ELSE <<>>

\* step 2 up to create_record("/contacts", ...), or the response without it
CreateContact(data, warnings) ==
    LET contact_data == ArgGet(wf_arguments, "contact_data", EmptyDict)
        company_name ==
            CompanyNameOf(ArgGet(wf_arguments, "company_data", EmptyDict))
    IN  IF DOMAIN contact_data # {}
        THEN /\ Locals(data, warnings, wf_next_steps)
             /\ Await("contact_created", "create_record", "/contacts",
                      Put(WithoutEmpty(contact_data), "company_name",
                          TextValue(Colon(company_name))))
        ELSE LET next_steps == wf_next_steps
                               \o <<"no contact was created", "company onboarded">>
             IN  /\ Locals(data, warnings, next_steps)
                 /\ WorkflowReturn(WorkflowResponse(workflow, data, next_steps,
                                                    warnings))

\* up to the search for the company
HandleOnboardCompanyWithContact ==
    /\ workflow = "onboard_company_with_contact"
    /\ wf_pc = "called"
    /\ Locals(EmptyDict, <<>>, <<>>)
    /\ LET company_name ==
               CompanyNameOf(ArgGet(wf_arguments, "company_data", EmptyDict))
       IN  IF company_name = <<>>
           THEN WorkflowReturn(WorkflowError(workflow,
                                   "company_data.company_name is required.", None))
           ELSE Await("existing", "search_records", "/company",
                      <<"company_name='">> \o company_name \o <<"'">>)
    /\ UNCHANGED <<workflow, wf_arguments, wf_env, wf_replies, nonWorkflowVars>>

\* step 1: the company exists already, or is created
OnboardExisting ==
    /\ workflow = "onboard_company_with_contact"
    /\ wf_pc = "existing"
    /\ \E reply \in SearchReplyOf(ActiveVendors) :
         /\ wf_replies' = Append(wf_replies, reply)
         /\ CASE reply = Raised ->
                   /\ WorkflowReturn(WorkflowError(workflow, "str(e)", DataIfAny(wf_data)))
                   /\ UNCHANGED <<wf_data, wf_warnings, wf_next_steps>>
              [] reply = Returned(<<>>) ->
                   /\ Await("company_created", "create_record", "/company",
                            WithoutEmpty(ArgGet(wf_arguments, "company_data", EmptyDict)))
                   /\ UNCHANGED <<wf_data, wf_warnings, wf_next_steps>>
              [] OTHER ->
                   IF ArgGet(wf_arguments, "skip_if_exists", FALSE)
                   THEN CreateContact(Put(Put(wf_data, "company", reply.v[1]),
                                          "company_action", "already_exists"),
                                      Append(wf_warnings, "company already exists"))
                   ELSE /\ WorkflowReturn(WorkflowError(workflow, "company already exists",
                                              <<[existing_company |-> reply.v[1]]>>))
                        /\ UNCHANGED <<wf_data, wf_warnings, wf_next_steps>>
    /\ UNCHANGED <<workflow, wf_arguments, wf_env, nonWorkflowVars>>

\* the reply to create_record("/company", ...)
OnboardCompanyCreated ==
    /\ workflow = "onboard_company_with_contact"
    /\ wf_pc = "company_created"
    /\ \E reply \in CreateReplies :
         /\ wf_replies' = Append(wf_replies, reply)
         /\ IF reply = Raised
            THEN /\ WorkflowReturn(WorkflowError(workflow, "str(e)", DataIfAny(wf_data)))
                 /\ UNCHANGED <<wf_data, wf_warnings, wf_next_steps>>
            ELSE CreateContact(Put(Put(wf_data, "company", reply.v),
                                   "company_action", "created"),
                               wf_warnings)
    /\ UNCHANGED <<workflow, wf_arguments, wf_env, nonWorkflowVars>>

\* the reply to create_record("/contacts", ...)
OnboardContactCreated ==
    /\ workflow = "onboard_company_with_contact"
    /\ wf_pc = "contact_created"
    /\ \E reply \in CreateReplies :
         /\ wf_replies' = Append(wf_replies, reply)
         /\ IF reply = Raised
            THEN /\ WorkflowReturn(WorkflowError(workflow, "str(e)", DataIfAny(wf_data)))
                 /\ UNCHANGED <<wf_data, wf_warnings, wf_next_steps>>
            ELSE LET data == Put(Put(wf_data, "contact", reply.v),
                                 "contact_action", "created")
                     next_steps == Append(wf_next_steps, "company onboarded")
                 IN  /\ Locals(data, wf_warnings, next_steps)
                     /\ WorkflowReturn(WorkflowResponse(workflow, data, next_steps,
                                                        wf_warnings))
    /\ UNCHANGED <<workflow, wf_arguments, wf_env, nonWorkflowVars>>

(***************************************************************************)
(* handle_attach_file_to_contract.  wf_env.file is what the disk holds at  *)
(* the expanded path: "absent" (no regular file), "unreadable", "empty"    *)
(* (0 bytes) or "bytes".                                                   *)
(***************************************************************************)
\* mutant: /home/claude is not taken for a sandbox
SandboxPrefixesButHome ==
    {<<"/", "mnt", "/">>, <<"/", "tmp", "/", "sandbox">>, <<"/", "sandbox", "/">>}

SandboxPrefixes ==
    {<<"/", "mnt", "/">>, <<"/", "home", "/", "claude">>,
     <<"/", "tmp", "/", "sandbox">>, <<"/", "sandbox", "/">>}

\* os.path.expanduser
ExpandUser(path) ==
    IF path # <<>> /\ Head(path) = "~"
    THEN <<"/", "Users", "/", "hector">> \o Tail(path) ELSE path

\* the local checks, up to get_record("/contract", contract_id, ...)
HandleAttachFileToContract ==
    /\ workflow = "attach_file_to_contract"
    /\ wf_pc = "called"
    /\ Locals(EmptyDict, <<>>, <<>>)
    /\ LET file_path == TextOf(wf_arguments, "file_path")
       IN  CASE file_path = <<>> ->
                  WorkflowReturn(WorkflowError(workflow, "file_path is required", None))
             [] file_path # <<>> /\ \E p \in SandboxPrefixes : StartsWith(file_path, p) ->
                  WorkflowReturn(WorkflowError(workflow,
                      "sandbox path: ask the user for the real file location", None))
             [] OTHER ->
                  CASE wf_env.file = "absent" ->
                         WorkflowReturn(WorkflowError(workflow, "File not found", None))
                    [] wf_env.file = "unreadable" ->
                         WorkflowReturn(WorkflowError(workflow, "Could not read file",
                                                      None))
                    [] wf_env.file = "empty" ->
                         WorkflowReturn(WorkflowError(workflow,
                                                      "File is empty (0 bytes).", None))
                    [] OTHER ->
                         Await("contract", "get_record", "/contract",
                               wf_arguments.contract_id)
    /\ UNCHANGED <<workflow, wf_arguments, wf_env, wf_replies, nonWorkflowVars>>

\* the contract get_record returns, with a title or without
TitledContracts == {[id |-> 7, contract_title1 |-> title] : title \in {<<>>, <<"MSA">>}}

\* step 1: the title of the contract; step 2 up to create_record("/attachment", ...)
AttachContract ==
    /\ workflow = "attach_file_to_contract"
    /\ wf_pc = "contract"
    /\ \E reply \in {Raised} \cup {Returned(c) : c \in TitledContracts} :
         /\ wf_replies' = Append(wf_replies, reply)
         /\ IF reply = Raised
            THEN /\ WorkflowReturn(WorkflowError(workflow, "str(e)", DataIfAny(wf_data)))
                 /\ UNCHANGED <<wf_data, wf_warnings, wf_next_steps>>
            ELSE LET data == Put(wf_data, "contract", reply.v)
                     file_path == ExpandUser(wf_arguments.file_path)
                     file_name == IF TextOf(wf_arguments, "file_name") # <<>>
                                  THEN wf_arguments.file_name
                                  ELSE <<file_path[Len(file_path)]>>
                     attachment_title == IF TextOf(wf_arguments, "attachment_title") # <<>>
                                         THEN wf_arguments.attachment_title
                                         ELSE file_name
                 IN  /\ Locals(data, wf_warnings, wf_next_steps)
                     /\ IF reply.v.contract_title1 = <<>>
                        THEN WorkflowReturn(WorkflowError(workflow, "contract has no title",
                                                          <<data>>))
                        ELSE Await("attachment_record", "create_record", "/attachment",
                                   [title |-> attachment_title,
                                    status |-> <<"Active">>,
                                    expiration_date |-> <<"2099-12-31">>,
                                    contract_title |-> Colon(reply.v.contract_title1)])
    /\ UNCHANGED <<workflow, wf_arguments, wf_env, nonWorkflowVars>>

\* create_result["result"] as the remote service gives it: an int, the text
\* of an int, another text, a dict with an id, or nothing
AttachmentResults ==
    {[kind |-> "int", n |-> 42], [kind |-> "int", n |-> 0],
     [kind |-> "digits", n |-> 42], [kind |-> "text", n |-> 0],
     [kind |-> "dict", n |-> 5], [kind |-> "missing", n |-> 0]}

\* step 2: the id of the attachment record; step 3 up to attach_file
AttachRecordCreated ==
    /\ workflow = "attach_file_to_contract"
    /\ wf_pc = "attachment_record"
    /\ \E reply \in {Raised} \cup {Returned([result |-> r]) : r \in AttachmentResults} :
         /\ wf_replies' = Append(wf_replies, reply)
         /\ CASE reply = Raised ->
                   /\ WorkflowReturn(WorkflowError(workflow, "str(e)", DataIfAny(wf_data)))
                   /\ UNCHANGED <<wf_data, wf_warnings, wf_next_steps>>
              [] reply # Raised /\ reply.v.result.kind = "text" ->
                   \* int(create_result["result"]) raises ValueError
                   LET data == Put(wf_data, "attachment_record", reply.v)
                   IN  /\ Locals(data, wf_warnings, wf_next_steps)
                       /\ WorkflowReturn(WorkflowError(workflow, "str(e): ValueError",
                                                        DataIfAny(data)))
              [] OTHER ->
                   LET data == Put(wf_data, "attachment_record", reply.v)
                       attachment_id == IF reply.v.result.kind = "missing"
                                        THEN 0 ELSE reply.v.result.n
                       file_path == ExpandUser(wf_arguments.file_path)
                       file_name == IF TextOf(wf_arguments, "file_name") # <<>>
                                    THEN wf_arguments.file_name
                                    ELSE <<file_path[Len(file_path)]>>
                   IN  IF attachment_id = 0
                       THEN /\ Locals(data, wf_warnings, wf_next_steps)
                            /\ WorkflowReturn(WorkflowError(workflow,
                                   "could not determine the attachment ID", <<data>>))
                       ELSE /\ Locals(Put(data, "attachment_id", attachment_id),
                                      wf_warnings, wf_next_steps)
                            /\ Await("upload_result", "attach_file", "/attachment",
                                     <<attachment_id, file_name>>)
    /\ UNCHANGED <<workflow, wf_arguments, wf_env, nonWorkflowVars>>

\* step 3: the upload; step 4 up to get_attachment_info
AttachUploaded ==
    /\ workflow = "attach_file_to_contract"
    /\ wf_pc = "upload_result"
    /\ \E reply \in {Raised, Returned([success |-> TRUE])} :
         /\ wf_replies' = Append(wf_replies, reply)
         /\ IF reply = Raised
            THEN /\ WorkflowReturn(WorkflowError(workflow, "str(e)", DataIfAny(wf_data)))
                 /\ UNCHANGED <<wf_data, wf_warnings, wf_next_steps>>
            ELSE /\ Locals(Put(wf_data, "upload_result", reply.v), wf_warnings,
                           wf_next_steps)
                 /\ Await("file_info", "get_attachment_info", "/attachment",
                          wf_data.attachment_id)
    /\ UNCHANGED <<workflow, wf_arguments, wf_env, nonWorkflowVars>>

\* step 4: the attachment is verified
AttachVerified ==
    /\ workflow = "attach_file_to_contract"
    /\ wf_pc = "file_info"
    /\ \E reply \in {Raised, Returned([count |-> 1])} :
         /\ wf_replies' = Append(wf_replies, reply)
         /\ IF reply = Raised
            THEN /\ WorkflowReturn(WorkflowError(workflow, "str(e)", DataIfAny(wf_data)))
                 /\ UNCHANGED <<wf_data, wf_warnings, wf_next_steps>>
            ELSE LET data == Put(wf_data, "file_info", reply.v)
                     next_steps == Append(wf_next_steps, "file attached")
                 IN  /\ Locals(data, wf_warnings, next_steps)
                     /\ WorkflowReturn(WorkflowResponse(workflow, data, next_steps, <<>>))
    /\ UNCHANGED <<workflow, wf_arguments, wf_env, nonWorkflowVars>>

(***************************************************************************)
(* dispatch_workflow_call(name, arguments, client, workflow_dispatch): the *)
(* handler named is called with the arguments, on a machine whose disk and *)
(* clock are in some state.                                                *)
(***************************************************************************)
WORKFLOW_HANDLERS ==
    {"preflight_create_contract", "create_contract_with_company",
     "get_contract_summary", "find_expiring_contracts",
     "onboard_company_with_contact", "attach_file_to_contract"}

FieldValues ==
    {TextValue(<<>>), TextValue(<<"X">>), TextValue(<<":", "X">>), NullValue, IntValue(5)}

FilePaths ==
    {<<>>,
     <<"/", "mnt", "/", "user-data", "/", "a.pdf">>,
     <<"/", "home", "/", "claude", "/", "a.pdf">>,
     <<"/", "tmp", "/", "sandbox", "/", "a.pdf">>,
     <<"/", "sandbox", "/", "a.pdf">>,
     <<"/", "Users", "/", "hector", "/", "a.pdf">>,
     <<"~", "/", "a.pdf">>}

WorkflowArguments(handler) ==
    CASE handler = "preflight_create_contract" ->
           [contract_type : {<<>>, <<"NDA">>, <<"Owner", "'", "s NDA">>},
            company_name : {<<>>, <<"Acme">>, <<"O", "'", "Neil">>}]
      [] handler = "create_contract_with_company" ->
           [contract_data : UNION {[keys -> FieldValues] :
                                     keys \in SUBSET CONTRACT_LINKED_FIELDS},
            company_name : {<<>>, <<"Acme">>},
            create_company_if_missing : BOOLEAN,
            company_data : {EmptyDict,
                            [type_of_company |-> TextValue(<<"Vendor">>),
                             industry |-> TextValue(<<>>)]}]
      [] handler = "get_contract_summary" ->
           [contract_id : {7}]
      [] handler = "find_expiring_contracts" ->
           [days_from_now : {30, 90}, include_expired : BOOLEAN,
            status_filter : {<<>>, <<"Active">>}]
      [] handler = "onboard_company_with_contact" ->
           [company_data : {EmptyDict,
                            [company_name |-> TextValue(<<>>)],
                            [company_name |-> TextValue(<<"Acme">>),
                             industry |-> NullValue]},
            contact_data : {EmptyDict,
                            [first_name |-> TextValue(<<"Ann">>),
                             email |-> TextValue(<<>>)]},
            skip_if_exists : BOOLEAN]
      [] OTHER ->
           [contract_id : {7}, file_path : FilePaths,
            file_name : {<<>>, <<"signed.pdf">>}, attachment_title : {<<>>}]

WorkflowInit ==
    /\ workflow \in WORKFLOW_HANDLERS
    /\ wf_arguments \in WorkflowArguments(workflow)
    /\ wf_env \in [file : IF workflow = "attach_file_to_contract"
                          THEN {"absent", "unreadable", "empty", "bytes"}
                          ELSE {"absent"},
                   time_of_day : IF workflow \in {"get_contract_summary",
                                                  "find_expiring_contracts"}
                                 THEN {0, 1} ELSE {1}]
    /\ wf_pc = "called"
    /\ wf_data = EmptyDict
    /\ wf_warnings = <<>>
    /\ wf_next_steps = <<>>
    /\ wf_calls = <<>>
    /\ wf_replies = <<>>
    /\ wf_result = EmptyDict


(***************************************************************************)
(* Config (config.py) and the client built from it.  The server builds the *)
(* client from the configuration as loaded; the scripts validate it first  *)
(* and stop when it is not valid.                                          *)
(***************************************************************************)
LogoutIdle == logout_pc = "none"

RequestIdle ==
    /\ req_kwargs = EmptyDict
    /\ req_pc = "idle"
    /\ req_sent = <<>>

ConfigIdle ==
    /\ config = EmptyDict
    /\ config_pc = "idle"
    /\ client_config = EmptyDict
    /\ http_requests = <<>>
    /\ config_str = <<>>

(***************************************************************************)
(* AgiloftClient.ensure_authenticated: the freshness test                  *)
(***************************************************************************)
\* mutant: the token is used up to its expiry, without the margin
NeedsAuthAtExpiry ==
    \/ access_token = NoToken
    \/ token_expires_at = NoExpiry
    \/ now >= token_expires_at

NeedsAuth ==
    \/ access_token = NoToken
    \/ token_expires_at = NoExpiry
    \/ now >= token_expires_at - RefreshMargin

(***************************************************************************)
(* The replies the remote service can give to POST /login and to an API    *)
(* request.                                                                *)
(***************************************************************************)
LoginReplies ==
    [kind : {"ok"}, expires_in : (1..MaxExpiresIn) \cup {NoExpiresIn},
     token : Tokens \cup {NoToken}]
    \cup [kind : {"http_error", "api_error", "client_error"},
          expires_in : {NoExpiresIn}, token : {NoToken}]

ApiReplies == {"200", "401", "500", "client_error"}

\* result.get('expires_in', 15)
ExpiresIn(reply) ==
    IF reply.expires_in = NoExpiresIn THEN DefaultExpiresIn ELSE reply.expires_in

(***************************************************************************)
(* asyncio.Lock: release hands the lock to the first waiter                *)
(***************************************************************************)
ReleasedLock ==
    IF lock_waiters = <<>> THEN <<0, <<>>>> ELSE <<Head(lock_waiters), Tail(lock_waiters)>>

\* mutant: the lock covers the freshness check only and is released before the login
LockDroppedBeforeLogin(p) == ReleasedLock

\* `async with self._auth_lock:` spans the freshness check and the login call
LockDuringLogin(p) == <<p, lock_waiters>>

(***************************************************************************)
(* Clock                                                                   *)
(***************************************************************************)
Tick ==
    /\ now < MaxTime
    /\ UNCHANGED nonClientVars
    /\ now' = now + 1
    /\ UNCHANGED <<access_token, refresh_token, token_expires_at, auth_lock,
                   lock_waiters, pc, attempts, relogins, bearer, last,
                   sawLogin>>

(***************************************************************************)
(* _make_request, first part: ensure_authenticated under the lock, then    *)
(* the first attempt.  CheckAndSend is the code that runs without          *)
(* suspension once the lock is held.                                       *)
(***************************************************************************)
\* The call returns or raises: the caller sees `how`; the task is free to
\* call again
Finish(p, how, reply) ==
    /\ pc' = [pc EXCEPT ![p] = "idle"]
    /\ last' = [outcome |-> how, reply |-> reply]
    /\ attempts' = [attempts EXCEPT ![p] = 0]
    /\ relogins' = [relogins EXCEPT ![p] = 0]
    /\ bearer' = [bearer EXCEPT ![p] = NoToken]

SendFirst(p) ==
    \* _get_auth_headers raises AgiloftAuthError when there is no token
    IF access_token' = NoToken
    THEN Finish(p, "auth_error", "no_token")
    ELSE /\ pc' = [pc EXCEPT ![p] = "req1"]
         /\ attempts' = [attempts EXCEPT ![p] = 1]
         /\ bearer' = [bearer EXCEPT ![p] = access_token']
         /\ UNCHANGED <<relogins, last>>

CheckAndSend(p) ==
    IF NeedsAuth
    THEN \* await self._authenticate(): POST /login is in flight, lock held
         /\ pc' = [pc EXCEPT ![p] = "auth_login"]
         /\ auth_lock' = LockDuringLogin(p)[1]
         /\ lock_waiters' = LockDuringLogin(p)[2]
         /\ UNCHANGED <<access_token, refresh_token, token_expires_at,
                        attempts, relogins, bearer, last>>
    ELSE /\ auth_lock' = ReleasedLock[1]
         /\ lock_waiters' = ReleasedLock[2]
         /\ UNCHANGED <<access_token, refresh_token, token_expires_at>>
         /\ SendFirst(p)

\* A task calls _make_request (its previous call, if any, has returned or
\* raised); ensure_authenticated takes the lock at once when it is free, and
\* queues behind the holder otherwise
Enter(p) ==
    /\ pc[p] = "idle"
    /\ UNCHANGED nonClientVars
    /\ UNCHANGED <<now, sawLogin>>
    /\ IF auth_lock = 0 /\ lock_waiters = <<>>
       THEN CheckAndSend(p)
       ELSE /\ pc' = [pc EXCEPT ![p] = "wait_lock"]
            /\ lock_waiters' = Append(lock_waiters, p)
            /\ UNCHANGED <<access_token, refresh_token, token_expires_at, auth_lock,
                           attempts, relogins, bearer, last>>

\* A blocked task is handed the lock and runs the freshness check
Acquire(p) ==
    /\ pc[p] = "wait_lock"
    /\ UNCHANGED nonClientVars
    /\ auth_lock = p
    /\ UNCHANGED <<now, sawLogin>>
    /\ CheckAndSend(p)

(***************************************************************************)
(* _authenticate: what a reply to POST /login does to the token fields     *)
(***************************************************************************)
StoreToken(reply) ==
    /\ access_token' = reply.token
    /\ refresh_token' = reply.token
    /\ token_expires_at' = now + ExpiresIn(reply)

\* mutant: a failed login forgets the token held
AuthFailedForgetsToken ==
    /\ access_token' = NoToken
    /\ refresh_token' = NoToken
    /\ token_expires_at' = NoExpiry

\* raise AgiloftAuthError(...) comes before any assignment to the token fields
AuthFailed == UNCHANGED <<access_token, refresh_token, token_expires_at>>

\* history: every task blocked on the lock has now seen a login succeed and
\* store an access token
NoteLogin(p, reply) ==
    sawLogin' = [q \in Procs |->
                    IF q = p THEN FALSE
                    ELSE sawLogin[q] \/ (pc[q] = "wait_lock" /\ reply.token \in Tokens)]

\* The reply to the login issued by ensure_authenticated arrives
LoginResponse(p) ==
    /\ pc[p] = "auth_login"
    /\ UNCHANGED nonClientVars
    /\ auth_lock' = IF auth_lock = p THEN ReleasedLock[1] ELSE auth_lock
    /\ lock_waiters' = IF auth_lock = p THEN ReleasedLock[2] ELSE lock_waiters
    /\ UNCHANGED now
    /\ \E reply \in LoginReplies :
         IF reply.kind = "ok"
         THEN /\ StoreToken(reply)
              /\ NoteLogin(p, reply)
              /\ SendFirst(p)
         ELSE \* AgiloftAuthError, or the transport's exception as it is:
              \* ensure_authenticated is called outside the try of _make_request
              /\ Finish(p, IF reply.kind = "client_error" THEN "client_error"
                                                          ELSE "auth_error", reply.kind)
              /\ sawLogin' = [sawLogin EXCEPT ![p] = FALSE]
              /\ AuthFailed

(***************************************************************************)
(* _make_request, second part: the reply to the first attempt              *)
(***************************************************************************)
\* what a 401 leads to: a forced _authenticate(), outside the lock
On401(p) ==
    /\ pc' = [pc EXCEPT ![p] = "relogin"]
    /\ relogins' = [relogins EXCEPT ![p] = relogins[p] + 1]
    /\ bearer' = [bearer EXCEPT ![p] = NoToken]
    /\ UNCHANGED <<attempts, last>>

Response1(p) ==
    /\ pc[p] = "req1"
    /\ UNCHANGED nonClientVars
    /\ sawLogin' = [sawLogin EXCEPT ![p] = FALSE]
    /\ UNCHANGED <<now, access_token, refresh_token, token_expires_at, auth_lock,
                   lock_waiters>>
    /\ \E status \in ApiReplies :
         CASE status = "200" -> Finish(p, "ok", status)
           [] status = "401" -> On401(p)
           [] OTHER -> Finish(p, "api_error", status)

\* after the forced login succeeded the request is sent once more, with the
\* new bearer token
RetryRequest(p) ==
    IF access_token' = NoToken
    THEN Finish(p, "auth_error", "no_token")
    ELSE /\ pc' = [pc EXCEPT ![p] = "req2"]
         /\ attempts' = [attempts EXCEPT ![p] = attempts[p] + 1]
         /\ bearer' = [bearer EXCEPT ![p] = access_token']
         /\ UNCHANGED <<relogins, last>>

\* The reply to the login forced by a 401 arrives
ReloginResponse(p) ==
    /\ pc[p] = "relogin"
    /\ UNCHANGED nonClientVars
    /\ UNCHANGED <<now, auth_lock, lock_waiters>>
    /\ \E reply \in LoginReplies :
         IF reply.kind = "ok"
         THEN /\ StoreToken(reply)
              /\ NoteLogin(p, reply)
              /\ RetryRequest(p)
         ELSE \* inside the try: aiohttp.ClientError is wrapped, AgiloftAuthError is not
              /\ Finish(p, IF reply.kind = "client_error" THEN "api_error"
                                                          ELSE "auth_error", reply.kind)
              /\ AuthFailed
              /\ UNCHANGED sawLogin

\* mutant: a 401 on the retry forces another login and another retry
AfterRetryLoops(p, status) ==
    IF status = "401"
    THEN On401(p)
    ELSE Finish(p, IF status = "200" THEN "ok" ELSE "api_error", status)

\* what the reply to the retried request leads to
AfterRetry(p, status) ==
    Finish(p, IF status = "200" THEN "ok" ELSE "api_error", status)

Response2(p) ==
    /\ pc[p] = "req2"
    /\ UNCHANGED nonClientVars
    /\ UNCHANGED <<now, access_token, refresh_token, token_expires_at, auth_lock,
                   lock_waiters, sawLogin>>
    /\ \E status \in ApiReplies : AfterRetry(p, status)

NoCall == [outcome |-> "none", reply |-> "none"]

ClientInit ==
    /\ now = 0
    /\ access_token = NoToken
    /\ refresh_token = NoToken
    /\ token_expires_at = NoExpiry
    /\ auth_lock = 0
    /\ lock_waiters = <<>>
    /\ pc = [p \in Procs |-> "idle"]
    /\ attempts = [p \in Procs |-> 0]
    /\ relogins = [p \in Procs |-> 0]
    /\ bearer = [p \in Procs |-> NoToken]
    /\ last = NoCall
    /\ sawLogin = [p \in Procs |-> FALSE]

(***************************************************************************)
(* AgiloftClient.logout, called by one task while no other call is under   *)
(* way.  The exception handler and the finally block run in the step in    *)
(* which _make_request returns or raises.                                  *)
(***************************************************************************)
Caller == 1

\* mutant: the token fields are cleared only when the remote logout succeeded
LogoutForgetsOnSuccess(how) ==
    IF how = "ok"
    THEN /\ access_token' = NoToken
         /\ refresh_token' = NoToken
         /\ token_expires_at' = NoExpiry
    ELSE UNCHANGED <<access_token, refresh_token, token_expires_at>>

\* finally: the three fields are set to None
LogoutFinally(how) ==
    /\ access_token' = NoToken
    /\ refresh_token' = NoToken
    /\ token_expires_at' = NoExpiry

\* _make_request returned, or raised and `except Exception` swallowed it
LogoutReturn(how, reply) ==
    /\ pc' = [pc EXCEPT ![Caller] = "idle"]
    /\ last' = [outcome |-> how, reply |-> reply]
    /\ attempts' = [attempts EXCEPT ![Caller] = 0]
    /\ relogins' = [relogins EXCEPT ![Caller] = 0]
    /\ bearer' = [bearer EXCEPT ![Caller] = NoToken]
    /\ LogoutFinally(how)
    /\ logout_pc' = "returned"

\* logout(): nothing is done without a token; otherwise POST /logout goes
\* through _make_request, freshness check included
Logout ==
    /\ pc[Caller] = "idle"
    /\ logout_pc # "request"
    /\ auth_lock = 0
    /\ lock_waiters = <<>>
    /\ IF access_token = NoToken
       THEN /\ logout_pc' = "skipped"
            /\ UNCHANGED clientVars
       ELSE /\ logout_pc' = "request"
            /\ CheckAndSend(Caller)
            /\ UNCHANGED <<now, sawLogin>>
    /\ UNCHANGED nonLogoutVars

\* what a failed login leaves _make_request with
LoginFailure(reply) ==
    IF reply.kind = "client_error" THEN "client_error" ELSE "auth_error"

\* the reply to the proactive login of the logout request
LogoutLoginResponse ==
    /\ logout_pc = "request"
    /\ pc[Caller] = "auth_login"
    /\ auth_lock' = ReleasedLock[1]
    /\ lock_waiters' = ReleasedLock[2]
    /\ \E reply \in LoginReplies :
         IF reply.kind = "ok" /\ reply.token # NoToken
         THEN /\ StoreToken(reply)
              /\ SendFirst(Caller)
              /\ UNCHANGED logout_pc
         ELSE LogoutReturn(LoginFailure(reply), reply.kind)
    /\ UNCHANGED <<now, sawLogin, nonLogoutVars>>

\* the reply to the first attempt of POST /logout
LogoutResponse1 ==
    /\ logout_pc = "request"
    /\ pc[Caller] = "req1"
    /\ \E status \in ApiReplies :
         CASE status = "200" -> LogoutReturn("ok", status)
           [] status = "401" ->
                /\ On401(Caller)
                /\ UNCHANGED <<access_token, refresh_token, token_expires_at, logout_pc>>
           [] OTHER -> LogoutReturn("api_error", status)
    /\ UNCHANGED <<now, auth_lock, lock_waiters, sawLogin, nonLogoutVars>>

\* the reply to the login forced by a 401 on POST /logout
LogoutReloginResponse ==
    /\ logout_pc = "request"
    /\ pc[Caller] = "relogin"
    /\ \E reply \in LoginReplies :
         IF reply.kind = "ok" /\ reply.token # NoToken
         THEN /\ StoreToken(reply)
              /\ RetryRequest(Caller)
              /\ UNCHANGED logout_pc
         ELSE LogoutReturn(IF reply.kind = "client_error" THEN "api_error"
                                                          ELSE "auth_error", reply.kind)
    /\ UNCHANGED <<now, auth_lock, lock_waiters, sawLogin, nonLogoutVars>>

\* the reply to the retried POST /logout
LogoutResponse2 ==
    /\ logout_pc = "request"
    /\ pc[Caller] = "req2"
    /\ \E status \in ApiReplies :
         LogoutReturn(IF status = "200" THEN "ok" ELSE "api_error", status)
    /\ UNCHANGED <<now, auth_lock, lock_waiters, sawLogin, nonLogoutVars>>

\* the task calls _make_request for another operation
Request ==
    /\ pc[Caller] = "idle"
    /\ logout_pc # "request"
    /\ auth_lock = 0
    /\ lock_waiters = <<>>
    /\ CheckAndSend(Caller)
    /\ logout_pc' = "none"
    /\ UNCHANGED <<now, sawLogin, nonLogoutVars>>

(***************************************************************************)
(* _make_request: the keyword arguments of the attempts of one call, made  *)
(* by a client that has not logged in yet                                  *)
(***************************************************************************)
\* endpoint.lstrip('/')
RECURSIVE LStripSlash(_)
LStripSlash(s) == IF s # <<>> /\ Head(s) = "/" THEN LStripSlash(Tail(s)) ELSE s

\* _get_auth_headers
AuthHeaders(token) ==
    [Authorization |-> <<"Bearer", token>>,
     ContentType |-> <<"application/json">>,
     Accept |-> <<"application/json">>]

\* lines 146-151: a header given as None removes the default, any other
\* value replaces it
MergeHeaders(headers, overrides) ==
    [h \in (DOMAIN headers \cup DOMAIN overrides)
            \ {k \in DOMAIN overrides : overrides[k] = None}
        |-> IF h \in DOMAIN overrides THEN overrides[h] ELSE headers[h]]

\* lines 140-143: the language parameter is added when the caller gave none
WithLang(params) == IF "lang" \in DOMAIN params THEN params ELSE params @@ [lang |-> "en"]

\* the calls of _make_request by get_record, create_record, delete_record
\* and attach_file
RequestCalls ==
    {[method |-> "GET", endpoint |-> <<"/", "contract", "/", "7">>,
      params |-> [fields |-> "id,wfstate"], body |-> "none", headers |-> EmptyDict],
     [method |-> "POST", endpoint |-> <<"/", "contract">>,
      params |-> EmptyDict, body |-> "json", headers |-> EmptyDict],
     [method |-> "DELETE", endpoint |-> <<"/", "contract", "/", "7">>,
      params |-> [deleteRule |-> "UNLINK_WHERE_POSSIBLE_OTHERWISE_DELETE"],
      body |-> "none", headers |-> EmptyDict],
     [method |-> "POST", endpoint |-> <<"/", "contract", "/", "attach", "/", "7">>,
      params |-> [field |-> "attached_file", fileName |-> "a.pdf"],
      body |-> "form", headers |-> [ContentType |-> None]]}

\* session.request(method, url, **kwargs) with the headers given
SessionRequest(headers) ==
    req_sent' = Append(req_sent,
                       [method |-> req_kwargs.method,
                        url |-> <<"base_url", "/">> \o LStripSlash(req_kwargs.endpoint),
                        params |-> WithLang(req_kwargs.params),
                        body |-> req_kwargs.body,
                        headers |-> headers])

\* the fields of the client a single call without a rival does not touch
clientCallVars ==
    <<now, auth_lock, lock_waiters, pc, attempts, relogins, bearer, last, sawLogin>>

\* a method of the client calls _make_request: no token is held, POST /login
MakeRequest ==
    /\ req_pc = "idle"
    /\ access_token = NoToken
    /\ \E call \in RequestCalls : req_kwargs' = call
    /\ req_pc' = "login"
    /\ UNCHANGED <<req_sent, access_token, refresh_token, token_expires_at,
                   clientCallVars, nonRequestVars>>

\* the login is answered; lines 136-157: the first attempt
RequestLoginResponse ==
    /\ req_pc = "login"
    /\ \E reply \in LoginReplies :
         IF reply.kind = "ok" /\ reply.token # NoToken
         THEN /\ StoreToken(reply)
              /\ SessionRequest(MergeHeaders(AuthHeaders(reply.token),
                                             req_kwargs.headers))
              /\ req_pc' = "first"
         ELSE /\ IF reply.kind = "ok" THEN StoreToken(reply) ELSE AuthFailed
              /\ req_pc' = "raised"
              /\ UNCHANGED req_sent
    /\ UNCHANGED <<req_kwargs, clientCallVars, nonRequestVars>>

\* the first attempt is answered; a 401 starts _authenticate()
RequestResponse1 ==
    /\ req_pc = "first"
    /\ \E status \in ApiReplies :
         req_pc' = CASE status = "200" -> "returned"
                     [] status = "401" -> "relogin"
                     [] OTHER -> "raised"
    /\ UNCHANGED <<req_kwargs, req_sent, access_token, refresh_token, token_expires_at,
                   clientCallVars, nonRequestVars>>

\* lines 162-165: kwargs['headers'] = self._get_auth_headers(), then the
\* retry with the keyword arguments of the first attempt
RequestReloginResponse ==
    /\ req_pc = "relogin"
    /\ \E reply \in LoginReplies :
         IF reply.kind = "ok" /\ reply.token # NoToken
         THEN /\ StoreToken(reply)
              /\ SessionRequest(AuthHeaders(reply.token))
              /\ req_pc' = "retry"
         ELSE /\ IF reply.kind = "ok" THEN StoreToken(reply) ELSE AuthFailed
              /\ req_pc' = "raised"
              /\ UNCHANGED req_sent
    /\ UNCHANGED <<req_kwargs, clientCallVars, nonRequestVars>>

\* the retry is answered
RequestResponse2 ==
    /\ req_pc = "retry"
    /\ \E status \in ApiReplies :
         req_pc' = IF status = "200" THEN "returned" ELSE "raised"
    /\ UNCHANGED <<req_kwargs, req_sent, access_token, refresh_token, token_expires_at,
                   clientCallVars, nonRequestVars>>

Init ==
    /\ ClientInit
    /\ SanitizeIdle
    /\ GenIdle
    /\ HandlerIdle
    /\ GetIdle
    /\ WorkflowIdle
    /\ ConfigIdle
    /\ LogoutIdle
    /\ RequestIdle

Next ==
    \/ Tick
    \/ \E p \in Procs : Enter(p)
    \/ \E p \in Procs : Acquire(p)
    \/ \E p \in Procs : LoginResponse(p)
    \/ \E p \in Procs : Response1(p)
    \/ \E p \in Procs : ReloginResponse(p)
    \/ \E p \in Procs : Response2(p)

Spec == Init /\ [][Next]_vars

(***************************************************************************)
(* Single-flight authentication                                            *)
(***************************************************************************)
\* at most one login issued by ensure_authenticated is in flight
OneLoginUnderLock == Cardinality({p \in Procs : pc[p] = "auth_login"}) <= 1

\* C1 (as claimed): callers of ensure_authenticated that blocked on the lock
\* while a login succeeded never log in themselves, and the logins issued by
\* ensure_authenticated never overlap: one login serves all concurrent callers.
C1_OneLoginForAll ==
    /\ OneLoginUnderLock
    /\ \A p \in Procs : pc[p] = "auth_login" => ~sawLogin[p]

\* C1 (amended): the logins issued by ensure_authenticated never overlap, and a
\* caller that blocked on the lock while a login succeeded does not log in
\* itself when, at the moment it takes the lock, the stored token is present
\* and more than one minute from expiry.
C1_OneLoginWhileFresh ==
    /\ []OneLoginUnderLock
    /\ [][\A p \in Procs :
            (pc[p] = "wait_lock" /\ sawLogin[p] /\ ~NeedsAuth)
                => pc'[p] # "auth_login"]_vars

\* a caller that blocked while another caller's login succeeded has sent its
\* request without logging in
C1_Witness ==
    \E p \in Procs : pc[p] = "req1" /\ sawLogin[p] /\ bearer[p] = access_token

(***************************************************************************)
(* The 401 retry                                                           *)
(***************************************************************************)
AttemptsBounded ==
    \A p \in Procs :
        /\ attempts[p] <= 2
        /\ relogins[p] <= 1
        /\ pc[p] = "relogin" => attempts[p] = 1 /\ relogins[p] = 1
        /\ pc[p] = "req2" => attempts[p] = 2 /\ relogins[p] = 1

\* a retry that returns a non-200 status ends the call with an API error
RetryDecides ==
    \A p \in Procs :
        (pc[p] = "req2" /\ pc'[p] # "req2")
            => /\ pc'[p] = "idle"
               /\ last'.outcome = IF last'.reply = "200" THEN "ok" ELSE "api_error"

\* a call under way can always take a step of its own or is waiting for the
\* lock holder, who can
CallProgresses ==
    (\E p \in Procs : pc[p] # "idle")
        => ENABLED (\E p \in Procs : \/ Acquire(p) \/ LoginResponse(p) \/ Response1(p)
                                     \/ ReloginResponse(p) \/ Response2(p))

\* C2 (as claimed): a 401 on the first attempt is followed by exactly one forced
\* login and exactly one retry; a retry that is not answered 200 ends the call
\* with an API error; no call makes more than two attempts or more than one
\* forced login, and every call under way can proceed to its end.
C2_OneRetryAlways ==
    /\ []AttemptsBounded
    /\ []CallProgresses
    /\ [][RetryDecides]_vars
    /\ [][\A p \in Procs : pc[p] = "relogin" => pc'[p] \in {"relogin", "req2"}]_vars

\* C2 (amended): as claimed, except that the retry is sent only when the forced
\* login succeeds and stores a token; when the forced login fails the call ends
\* at once, without a retry, with the authentication error (an API error when
\* the transport failed).
C2_OneRetryAfterLogin ==
    /\ []AttemptsBounded
    /\ []CallProgresses
    /\ [][RetryDecides]_vars
    /\ [][\A p \in Procs :
            (pc[p] = "relogin" /\ pc'[p] # "relogin")
                => \/ /\ pc'[p] = "req2"
                      /\ attempts'[p] = 2
                      /\ access_token' \in Tokens
                      /\ bearer'[p] = access_token'
                   \/ /\ pc'[p] = "idle"
                      /\ last'.reply \in {"http_error", "api_error", "no_token"}
                      /\ last'.outcome = "auth_error"
                   \/ /\ pc'[p] = "idle"
                      /\ last'.reply = "client_error"
                      /\ last'.outcome = "api_error"]_vars

\* a call was answered 401 twice: on the first attempt and on the retry
C2_Witness == last.outcome = "api_error" /\ last.reply = "401"

(***************************************************************************)
(* Query sanitization                                                      *)
(***************************************************************************)
SanitizeSpecInit ==
    /\ SanitizeInit
    /\ ClientInit
    /\ GenIdle
    /\ HandlerIdle
    /\ GetIdle
    /\ WorkflowIdle
    /\ ConfigIdle
    /\ LogoutIdle
    /\ RequestIdle

SanitizeSpec == SanitizeSpecInit /\ [][Sanitize]_vars

\* the number of occurrences of character c in s
RECURSIVE Count(_, _)
Count(s, c) ==
    IF s = <<>> THEN 0 ELSE (IF Head(s) = c THEN 1 ELSE 0) + Count(Tail(s), c)

\* the quotes of s stand in pairs: every maximal run of quotes has even length
RECURSIVE QuotesPaired(_)
QuotesPaired(s) ==
    IF s = <<>> THEN TRUE
    ELSE IF Head(s) # Quote THEN QuotesPaired(Tail(s))
    ELSE /\ Len(s) >= 2
         /\ s[2] = Quote
         /\ QuotesPaired(SubSeq(s, 3, Len(s)))

\* C6: for every free-text value, the sanitized value contains no "--" and no
\* ";", and every single quote of the input appears doubled in it.
C6_Sanitized ==
    sanitized # NotYet
        => /\ ~Contains(sanitized, <<Dash, Dash>>)
           /\ ~Contains(sanitized, <<Semicolon>>)
           /\ QuotesPaired(sanitized)
           /\ Count(sanitized, Quote) = 2 * Count(value, Quote)

(***************************************************************************)
(* Tool generation                                                         *)
(***************************************************************************)
GenSpecInit ==
    /\ GenInit
    /\ ClientInit
    /\ SanitizeIdle
    /\ HandlerIdle
    /\ GetIdle
    /\ WorkflowIdle
    /\ ConfigIdle
    /\ LogoutIdle
    /\ RequestIdle

GenNext == ForEntity \/ ForOp \/ GenReturn

GenSpec == GenSpecInit /\ [][GenNext]_vars

\* the operations an entity is to get a tool for
Applicable(entity, op) ==
    \/ op \in {"search", "get", "create", "update", "delete", "upsert"}
    \/ /\ op \in {"attach_file", "retrieve_attachment", "remove_attachment",
                  "get_attachment_info"}
       /\ entity.supports_attach
    \/ op = "action_button" /\ entity.supports_action_button
    \/ op = "evaluate_format" /\ entity.supports_evaluate_format

\* C5: generate_tools returns exactly one tool per entity and applicable
\* operation (the six core operations always, the four attachment operations,
\* action_button and evaluate_format exactly when the entity supports them);
\* the tool names are pairwise distinct; the keys of the dispatch map are the
\* tool names, and each maps to the entity key and operation of its tool.
C5_OneToolPerOperation ==
    gen_pc = "returned" /\ entity_i > 0
        => /\ \A k \in DOMAIN registry, op \in GeneratorOps :
                Cardinality({i \in DOMAIN tools :
                                tools[i].entity = k /\ tools[i].generator = op})
                    = IF Applicable(registry[k], op) THEN 1 ELSE 0
           /\ \A i, j \in DOMAIN tools : tools[i].name = tools[j].name => i = j
           /\ DOMAIN dispatch = {tools[i].name : i \in DOMAIN tools}
           /\ \A i \in DOMAIN tools :
                dispatch[tools[i].name] = <<tools[i].entity, tools[i].generator>>

\* tools were generated for a registry whose company entity supports neither
\* attachments nor formula evaluation
C5_Witness ==
    /\ gen_pc = "returned"
    /\ ~registry["company"].supports_attach
    /\ ~registry["company"].supports_evaluate_format
    /\ dispatch["agiloft_search_companies"] = <<"company", "search">>
    /\ "agiloft_attach_file_company" \notin DOMAIN dispatch
    /\ "agiloft_attach_file_contract" \in DOMAIN dispatch

(***************************************************************************)
(* Dispatch and the entity handlers                                        *)
(***************************************************************************)
HandlerSpecInit ==
    /\ HandlerInit
    /\ ClientInit
    /\ SanitizeIdle
    /\ GenIdle
    /\ GetIdle
    /\ WorkflowIdle
    /\ ConfigIdle
    /\ LogoutIdle
    /\ RequestIdle

HandlerNext == DispatchToolCall \/ SearchReply \/ SearchTextReply \/ ClientReply

HandlerSpec == HandlerSpecInit /\ [][HandlerNext]_vars

\* the call names a registered tool
Registered == name \in DOMAIN ToolDispatch

\* the call is a search whose query is a string
SearchesFor(q) ==
    /\ Registered
    /\ ToolDispatch[name][2] = "search"
    /\ ArgGet(arguments, "query", <<<<>>>>) = <<q>>

\* C3: for every registered tool name, every argument map and every failure of
\* the client operation, dispatch_tool_call returns an envelope, with
\* success = false and an error message when the client operation failed, and
\* no exception reaches its caller.
C3_AlwaysAnEnvelope ==
    Registered
        => /\ handler_pc # "raised"
           /\ (handler_pc = "returned" /\ returned # <<>>
                    /\ returned[Len(returned)].t = "raise")
                => /\ envelope.success = FALSE
                   /\ "error" \in DOMAIN envelope

\* the parts of the envelope that do not depend on the record id
EnvelopeShape ==
    /\ {"success", "operation", "entity"} \subseteq DOMAIN envelope
    /\ envelope.operation = ToolDispatch[name][2]
    /\ envelope.entity = ToolDispatch[name][1]
    /\ envelope.success => "data" \in DOMAIN envelope /\ "error" \notin DOMAIN envelope
    /\ ~envelope.success => "error" \in DOMAIN envelope /\ "data" \notin DOMAIN envelope
    /\ "count" \in DOMAIN envelope
            <=> ("data" \in DOMAIN envelope /\ envelope.data.t = "list")
    /\ "count" \in DOMAIN envelope => envelope.count = Len(envelope.data.v)

\* the call carried a record id that is not null
CarriedRecordId == ArgGet(arguments, "record_id", None) # None

\* C4 (as claimed): every envelope has success, operation and entity; data and
\* no error exactly when success is true, error and no data exactly when it is
\* false; record_id exactly when the call carried a non-null record id; count
\* exactly when data is a sequence, and then its length.
C4_RecordIdWheneverCarried ==
    handler_pc = "returned"
        => /\ EnvelopeShape
           /\ "record_id" \in DOMAIN envelope <=> CarriedRecordId
           /\ "record_id" \in DOMAIN envelope
                => envelope.record_id = arguments.record_id[1]

\* C4 (amended): as claimed, except that record_id is present exactly when the
\* call carried a non-null record id and the operation is not search, create
\* or upsert, whose envelopes never have it.
C4_RecordIdOfRecordOperations ==
    handler_pc = "returned"
        => /\ EnvelopeShape
           /\ "record_id" \in DOMAIN envelope
                <=> /\ CarriedRecordId
                    /\ ToolDispatch[name][2] \notin {"search", "create", "upsert"}
           /\ "record_id" \in DOMAIN envelope
                => envelope.record_id = arguments.record_id[1]

\* the attachment metadata of a record came back as a sequence
C4_Witness ==
    /\ handler_pc = "returned"
    /\ name = "agiloft_get_attachment_info_contract"
    /\ envelope.success
    /\ {"record_id", "count"} \subseteq DOMAIN envelope
    /\ envelope.record_id = 7
    /\ envelope.count = 1
    /\ envelope.data.v = <<[id |-> 1, copy |-> 1]>>

\* C7: a search whose query is classified as structured issues exactly one
\* remote search, and its query is the caller's query, unchanged.
C7_StructuredQueryVerbatim ==
    \A q \in Queries :
        (SearchesFor(q) /\ IsStructuredQuery(q))
            => /\ handler_pc = "called" => calls = <<>>
               /\ handler_pc # "called"
                    => /\ Len(calls) = 1
                       /\ calls[1].method = "search_records"
                       /\ calls[1].path = ENTITY_REGISTRY[ToolDispatch[name][1]].api_path
                       /\ calls[1].query = <<q>>

\* a structured query holding quotes, a semicolon and a double dash was searched
C7_Witness ==
    /\ handler_pc = "returned"
    /\ envelope.success
    /\ Len(calls) = 1
    /\ calls[1].query =
         <<<<"name", " ", "=", " ", "'", "o", "'", "'", "neil", ";", "-", "-", "'">>>>

\* all the records the searches returned, in the order they came
RECURSIVE Flatten(_)
Flatten(replies) ==
    IF replies = <<>> THEN <<>> ELSE Head(replies).v \o Flatten(Tail(replies))

\* the position in s of the first record with the id
FirstIndex(s, id) == CHOOSE i \in DOMAIN s : s[i].id = id /\ \A j \in 1..(i - 1) : s[j].id # id

\* merged holds each id of s once, as the first record of s with that id, in
\* the order of these first records
FirstOccurrences(merged, s) ==
    /\ {merged[i].id : i \in DOMAIN merged} = {s[i].id : i \in DOMAIN s}
    /\ \A i, j \in DOMAIN merged : merged[i].id = merged[j].id => i = j
    /\ \A i \in DOMAIN merged : merged[i] = s[FirstIndex(s, merged[i].id)]
    /\ \A i, j \in DOMAIN merged :
            i < j => FirstIndex(s, merged[i].id) < FirstIndex(s, merged[j].id)

LimitedTo(L) ==
    /\ handler_pc = "returned"
    /\ Registered
    /\ ToolDispatch[name][2] = "search"
    /\ ArgGet(arguments, "limit", None) = <<L>>
    /\ results.t = "list"
    /\ envelope.success

\* data is all of the retrieved records when L is at least their number, the
\* first L of them, with count = L, when it is smaller
FirstRecords(L) ==
    IF L >= Len(results.v)
    THEN envelope.data.v = results.v
    ELSE /\ envelope.data.v = SubSeq(results.v, 1, L)
         /\ envelope.count = L

\* C9 (as claimed): for every search and every caller-supplied limit L, data
\* is the full retrieved sequence if L is at least the number of retrieved
\* records, and otherwise the first L retrieved records in their order, with
\* count = L.
C9_AnyLimitApplied ==
    \A L \in (-1)..MaxRecords : LimitedTo(L) => FirstRecords(L)

\* C9 (amended): the same for every caller-supplied limit L that is not negative.
C9_NonNegativeLimitApplied ==
    \A L \in 0..MaxRecords : LimitedTo(L) => FirstRecords(L)

\* a search that retrieved two records returned the first of them for limit 1
C9_Witness ==
    /\ LimitedTo(1)
    /\ Len(results.v) = 2
    /\ envelope.data.v = <<results.v[1]>>
    /\ envelope.count = 1

(***************************************************************************)
(* Response shapes of get_record                                           *)
(***************************************************************************)
GetSpecInit ==
    /\ GetInit
    /\ ClientInit
    /\ SanitizeIdle
    /\ GenIdle
    /\ HandlerIdle
    /\ WorkflowIdle
    /\ ConfigIdle
    /\ LogoutIdle
    /\ RequestIdle

GetSpec == GetSpecInit /\ [][GetRecord]_vars

\* shape 1: a mapping with the key 'result'
ResultShape(r) == r.t = "dict" /\ "result" \in DOMAIN r.d

\* shape 2: a mapping whose only key besides success, message and errors holds
\* a mapping
EntityShape(r) ==
    /\ r.t = "dict"
    /\ \E k \in DOMAIN r.d \ MetaKeys :
            /\ DOMAIN r.d \ MetaKeys = {k}
            /\ r.d[k].t = "dict"

\* shape 3: a mapping with the key 'id'
BareShape(r) == r.t = "dict" /\ "id" \in DOMAIN r.d

\* get_record, called without a field list, has returned the record the first
\* of the shapes that the response matches wraps, or has raised an API error
\* naming the record id when the response matches none
FirstShapeDecides(SequenceShape(_)) ==
    (get_pc \in {"returned", "raised"} /\ (get_fields = None \/ get_fields = <<<<>>>>))
        => IF ResultShape(get_response)
           THEN get_pc = "returned" /\ get_result = get_response.d["result"]
           ELSE IF EntityShape(get_response)
           THEN /\ get_pc = "returned"
                /\ \E k \in DOMAIN get_response.d \ MetaKeys :
                        get_result = get_response.d[k]
           ELSE IF BareShape(get_response)
           THEN get_pc = "returned" /\ get_result = get_response
           ELSE IF SequenceShape(get_response)
           THEN get_pc = "returned" /\ get_result = get_response.l[1]
           ELSE /\ get_pc = "raised"
                /\ get_error.type = "AgiloftAPIError"
                /\ get_error.record_id = <<get_record_id>>

OneElementSequence(r) == r.t = "list" /\ Len(r.l) = 1

NonEmptySequence(r) == r.t = "list" /\ Len(r.l) >= 1

\* C10 (as claimed): get_record returns the record R wrapped by {result: R},
\* by {<entity>: R} with or without success, message and errors, by a bare R
\* with an 'id' key, or by the one-element sequence [R], trying the shapes in
\* this order; for a response of none of these shapes it fails with an API
\* error whose message names the requested record id.
C10_OneElementSequence == FirstShapeDecides(OneElementSequence)

\* C10 (amended): the same, with the fourth shape being any non-empty
\* sequence, whose first element is the record returned.
C10_NonEmptySequence == FirstShapeDecides(NonEmptySequence)

\* the record was taken from a sequence of two records
C10_Witness ==
    /\ get_pc = "returned"
    /\ get_fields = None
    /\ get_response = List(<<RecordA, RecordB>>)
    /\ get_result = RecordA

(***************************************************************************)
(* The composite workflows                                                 *)
(***************************************************************************)
WorkflowSpecInit ==
    /\ WorkflowInit
    /\ ClientInit
    /\ SanitizeIdle
    /\ GenIdle
    /\ HandlerIdle
    /\ GetIdle
    /\ ConfigIdle
    /\ LogoutIdle
    /\ RequestIdle

WorkflowNext ==
    \/ HandlePreflightCreateContract
    \/ PreflightActiveTypes
    \/ PreflightTypeResults
    \/ PreflightFallbackTypes
    \/ PreflightCompanyResults
    \/ HandleCreateContractWithCompany
    \/ CreateContractCompanyResults
    \/ CreateContractCompanyCreated
    \/ CreateContractCreated
    \/ HandleGetContractSummary
    \/ SummaryContract
    \/ SummaryCompany
    \/ SummaryAttachments
    \/ HandleFindExpiringContracts
    \/ ExpiringContracts
    \/ HandleOnboardCompanyWithContact
    \/ OnboardExisting
    \/ OnboardCompanyCreated
    \/ OnboardContactCreated
    \/ HandleAttachFileToContract
    \/ AttachContract
    \/ AttachRecordCreated
    \/ AttachUploaded
    \/ AttachVerified

WorkflowSpec == WorkflowSpecInit /\ [][WorkflowNext]_vars

\* the run of a workflow has ended
Ended(handler) == workflow = handler /\ wf_pc = "returned"

\* the last remote operation raised and the handler returned an error envelope
FailedRemotely ==
    /\ wf_pc = "returned"
    /\ wf_replies # <<>>
    /\ wf_replies[Len(wf_replies)] = Raised
    /\ ~wf_result.success

\* what the earlier steps left in `data`, the verdict ready_to_create aside
EarlierResults == DOMAIN wf_data \ {"ready_to_create"}

\* C11: in every composite workflow, when a remote step fails after earlier
\* steps produced results, the error envelope has success=false and carries
\* those results in partial_data.
C11_PartialDataCarried ==
    (FailedRemotely /\ EarlierResults # {})
        => /\ "partial_data" \in DOMAIN wf_result
           /\ wf_result.partial_data = wf_data

(***************************************************************************)
(* find_expiring_contracts                                                 *)
(***************************************************************************)
\* the contracts the search returned
Retrieved == wf_replies[1].v

Parsable(contract) ==
    contract.contract_end_date.text \in {"YYYY-MM-DD", "YYYY-MM-DDTHH:MM:SS"}

\* the days a contract has left
DaysLeft(contract) ==
    DaysRemaining(contract.contract_end_date.day, wf_env.time_of_day)

\* the bucket fixed by the days remaining
BucketOf(d) ==
    CASE d < 0 -> "expired"
      [] 0 <= d /\ d <= 30 -> "urgent"
      [] 31 <= d /\ d <= 60 -> "upcoming"
      [] d >= 61 -> "planning"

\* the ids of the retrieved contracts that belong in a bucket, in order
IdsFor(bucket) ==
    LET Belongs(c) == Parsable(c) /\ BucketOf(DaysLeft(c)) = bucket
        chosen == SelectSeq(Retrieved, Belongs)
    IN  [i \in 1..Len(chosen) |-> chosen[i].id]

IdsOf(contracts) == [i \in 1..Len(contracts) |-> contracts[i].id]

EndDaysOf(contracts) == [i \in 1..Len(contracts) |-> contracts[i].contract_end_date.day]

Searched == Ended("find_expiring_contracts") /\ wf_replies[1] # Raised

Preflighted == Ended("preflight_create_contract") /\ wf_result.success

\* the type named was found active
TypeFound ==
    /\ wf_arguments.contract_type # <<>>
    /\ wf_replies[1] # Raised
    /\ wf_replies[1].v # <<>>

\* a company was named and the search found it
CompanyFound ==
    /\ TypeFound
    /\ wf_arguments.company_name # <<>>
    /\ Len(wf_replies) = 2
    /\ wf_replies[2] # Raised
    /\ wf_replies[2].v # <<>>

NoWarning == "warnings" \notin DOMAIN wf_result

MismatchWarned ==
    /\ "warnings" \in DOMAIN wf_result
    /\ \E w \in DOMAIN wf_result.warnings : wf_result.warnings[w] = "type mismatch"

PartyType == wf_replies[1].v[1].party_type
CompanyType == wf_replies[2].v[1].type_of_company

\* the preflight answers with a boolean ready_to_create, true only with the
\* type found, no warning, and the company, if named, found and Active
ReadyOnlyIfValid ==
    /\ "ready_to_create" \in DOMAIN wf_result.data
    /\ wf_result.data.ready_to_create \in BOOLEAN
    /\ wf_result.data.ready_to_create
          => /\ TypeFound
             /\ NoWarning
             /\ wf_arguments.company_name # <<>>
                   => CompanyFound /\ wf_replies[2].v[1].status = <<"Active">>

\* C13 as stated: every successful preflight response contains a boolean
\* data.ready_to_create, true only if the type was found active and no warning
\* was emitted (company, if named, found, Active and of a type equal to the
\* party_type of the contract type); with a valid type and a company of
\* another type, ready_to_create is false and a mismatch warning is present.
C13_ReadyOnlyIfTypesEqual ==
    Preflighted =>
        /\ ReadyOnlyIfValid
        /\ (wf_result.data.ready_to_create /\ wf_arguments.company_name # <<>>)
              => CompanyType = PartyType
        /\ (CompanyFound /\ CompanyType # PartyType)
              => ~wf_result.data.ready_to_create /\ MismatchWarned

\* C13 (amended): the types are compared only when the contract type has a
\* party_type and the company has a type_of_company; a company found Active
\* with one of the two empty is ready to create, without a mismatch warning.
C13_ReadyOnlyIfKnownTypesEqual ==
    Preflighted =>
        /\ ReadyOnlyIfValid
        /\ (/\ wf_result.data.ready_to_create
            /\ wf_arguments.company_name # <<>>
            /\ CompanyType # <<>>
            /\ PartyType # <<>>)
              => CompanyType = PartyType
        /\ (/\ CompanyFound
            /\ CompanyType # <<>>
            /\ PartyType # <<>>
            /\ CompanyType # PartyType)
              => ~wf_result.data.ready_to_create /\ MismatchWarned

\* a preflight finds the type and a company of another type
C13_Witness ==
    /\ Preflighted
    /\ CompanyFound
    /\ CompanyType = <<"Customer">>
    /\ PartyType = <<"Vendor">>
    /\ ~wf_result.data.ready_to_create
    /\ MismatchWarned

(***************************************************************************)
(* attach_file_to_contract: the local checks                               *)
(***************************************************************************)
\* the path starts with /mnt/, /home/claude, /tmp/sandbox or /sandbox/
InSandbox(path) ==
    \/ StartsWith(path, <<"/", "mnt", "/">>)
    \/ StartsWith(path, <<"/", "home", "/", "claude">>)
    \/ StartsWith(path, <<"/", "tmp", "/", "sandbox">>)
    \/ StartsWith(path, <<"/", "sandbox", "/">>)

\* C14: attach_file_to_contract issues no remote call when the file path is
\* missing, starts with a sandbox prefix, names no existing file or names a
\* zero-byte file; it returns success=false, the sandbox case telling the
\* caller to ask the user for the real path, the zero-byte case reporting
\* an empty file.
C14_NoCallForBadFile ==
    LET file_path == wf_arguments.file_path
        missing == file_path = <<>>
        sandbox == ~missing /\ InSandbox(file_path)
        absent == wf_env.file = "absent"
        empty == wf_env.file = "empty"
    IN  (workflow = "attach_file_to_contract"
            /\ (missing \/ sandbox \/ absent \/ empty))
          => /\ wf_calls = <<>>
             /\ wf_pc \in {"called", "returned"}
             /\ wf_pc = "returned"
                   => /\ ~wf_result.success
                      /\ "partial_data" \notin DOMAIN wf_result
                      /\ sandbox => wf_result.error
                            = "sandbox path: ask the user for the real file location"
                      /\ (empty /\ ~missing /\ ~sandbox)
                            => wf_result.error = "File is empty (0 bytes)."

\* a zero-byte file at a real path was refused
C14_Witness ==
    /\ Ended("attach_file_to_contract")
    /\ wf_env.file = "empty"
    /\ wf_arguments.file_path = <<"/", "Users", "/", "hector", "/", "a.pdf">>
    /\ wf_result.error = "File is empty (0 bytes)."
    /\ wf_calls = <<>>

(***************************************************************************)
(* create_contract_with_company                                            *)
(***************************************************************************)
\* the positions in wf_calls of the calls of a client method on a path
CallsTo(method, path) ==
    {i \in DOMAIN wf_calls : wf_calls[i].method = method /\ wf_calls[i].path = path}

\* the call has been answered with a result
Answered(i) == i <= Len(wf_replies) /\ wf_replies[i] # Raised

\* C18: in create_contract_with_company the contract is created only after
\* the company was found by the search or created successfully; not found
\* and create_company_if_missing unset give success=false and no create
\* call; at most one company and one contract are created; the contract
\* sent has company_name ':' + the company name and every non-empty string
\* value of contract_type and internal_contract_owner starts with ':'.
C18_CompanyBeforeContract ==
    workflow = "create_contract_with_company" =>
        LET company_creates == CallsTo("create_record", "/company")
            contract_creates == CallsTo("create_record", "/contract")
            found == Answered(1) /\ wf_replies[1].v # <<>>
        IN  /\ Cardinality(company_creates) <= 1
            /\ Cardinality(contract_creates) <= 1
            /\ \A c \in contract_creates :
                 /\ \/ found
                    \/ \E k \in company_creates : k < c /\ Answered(k)
                 /\ LET sent == wf_calls[c].arg
                    IN  /\ "company_name" \in DOMAIN sent
                        /\ sent["company_name"]
                              = TextValue(Colon(wf_arguments.company_name))
                        /\ \A f \in {"contract_type", "internal_contract_owner"}
                                        \cap DOMAIN sent :
                             (sent[f].t = "str" /\ sent[f].s # <<>>)
                                => Head(sent[f].s) = ":"
            /\ (/\ wf_pc = "returned"
                /\ Answered(1)
                /\ ~found
                /\ ~wf_arguments.create_company_if_missing)
                  => /\ ~wf_result.success
                     /\ company_creates = {}
                     /\ contract_creates = {}

\* a contract whose type was given without the colon is sent after the
\* company was created
C18_Witness ==
    /\ workflow = "create_contract_with_company"
    /\ CallsTo("create_record", "/company") = {2}
    /\ CallsTo("create_record", "/contract") = {3}
    /\ "contract_type" \in DOMAIN wf_arguments.contract_data
    /\ wf_arguments.contract_data["contract_type"] = TextValue(<<"X">>)
    /\ wf_calls[3].arg["contract_type"] = TextValue(<<":", "X">>)

(***************************************************************************)
(* The action_button and evaluate_format tools                             *)
(***************************************************************************)
\* C15: dispatching an action_button tool (an evaluate_format tool) results
\* in exactly one transport call, POST {api_path}/actionButton/{id} with the
\* button name (POST {api_path}/evaluateFormat/{id} with the formula), and an
\* envelope with success=true when the remote call succeeds.
C15_OneTransportCall ==
    (/\ Registered
     /\ ToolDispatch[name][2] \in {"action_button", "evaluate_format"}
     /\ handler_pc = "returned")
        => /\ Len(calls) = 1
           /\ calls[1].method = ClientMethod(ToolDispatch[name][2])
           /\ calls[1].path = ENTITY_REGISTRY[ToolDispatch[name][1]].api_path

(***************************************************************************)
(* The tools generated for ENTITY_REGISTRY                                 *)
(***************************************************************************)
\* generate_tools has returned the tools of the registry of the program
Generated == gen_pc = "returned" /\ entity_i > 0 /\ registry = ENTITY_REGISTRY

ToolsOf(k) == {i \in DOMAIN tools : tools[i].entity = k}

\* the tool name ends with the key or the plural key of the entity
NamedAfter(tool_name, entity) ==
    \E op \in GeneratorOps, suffix \in {entity.key, entity.key_plural} :
        tool_name = "agiloft_" \o op \o "_" \o suffix

\* twelve tools per entity, each dispatched to an entity among `keys` and
\* named after it
TwelveToolsPerEntity(keys) ==
    /\ \A k \in DOMAIN registry : Cardinality(ToolsOf(k)) = 12
    /\ \A tool_name \in DOMAIN dispatch :
          /\ dispatch[tool_name][1] \in keys
          /\ NamedAfter(tool_name, registry[dispatch[tool_name][1]])

Elements(s) == {s[i] : i \in DOMAIN s}

\* the required fields of every entity are among its key_fields, and no two
\* entities share a key or a plural key
RequiredFieldsDocumented ==
    /\ \A k \in DOMAIN registry :
          Elements(registry[k].required_fields) \subseteq registry[k].key_fields
    /\ \A j, k \in DOMAIN registry :
          j # k => /\ registry[j].key # registry[k].key
                   /\ registry[j].key_plural # registry[k].key_plural

\* C17 as stated: for every entity, every name in required_fields and every
\* name in default_search_fields other than 'id' is a key of key_fields; no
\* two entities share a key or key_plural.
C17_SearchFieldsDocumented ==
    /\ RequiredFieldsDocumented
    /\ \A k \in DOMAIN registry :
          Elements(registry[k].default_search_fields) \ {"id"}
              \subseteq registry[k].key_fields

\* C17 (amended): the company entity returns number_of_active_contracts from
\* a search without listing it in key_fields; every other default search
\* field but 'id' is a key of key_fields.
C17_SearchFieldsDocumentedButOne ==
    /\ RequiredFieldsDocumented
    /\ \A k \in DOMAIN registry :
          Elements(registry[k].default_search_fields)
                \ (IF k = "company" THEN {"id", "number_of_active_contracts"}
                   ELSE {"id"})
              \subseteq registry[k].key_fields

\* the registry is loaded: company requires company_name and documents it
C17_Witness ==
    /\ gen_pc = "returned"
    /\ DOMAIN registry = DOMAIN ENTITY_REGISTRY
    /\ "company_name" \in Elements(registry["company"].required_fields)
    /\ "company_name" \in registry["company"].key_fields
    /\ "industry" \in Elements(registry["company"].default_search_fields)

(***************************************************************************)
(* The configuration of the transport                                      *)
(***************************************************************************)
\* the configuration after Config._load_config: any field can be blank
Configs ==
    [base_url : {"", "https://example.agiloft.com/ewws/alrest/Demo"},
     username : {"", "admin"},
     password : {"", "secret"},
     kb : {"", "Demo"},
     language : {"en"}]

ConfigInit ==
    /\ config \in Configs
    /\ config_pc = "loaded"
    /\ client_config = EmptyDict
    /\ http_requests = <<>>
    /\ config_str = <<>>

\* Config.validate: the required fields that are blank
MissingFields(cfg) ==
    {f \in {"base_url", "username", "password", "kb"} : cfg[f] = ""}

\* `if not config.validate(): return`
ConfigValidate ==
    /\ config_pc = "loaded"
    /\ config_pc' = IF MissingFields(config) = {} THEN "validated" ELSE "exited"
    /\ UNCHANGED <<config, client_config, http_requests, config_str, nonConfigVars>>

\* AgiloftClient.__init__: the fields are taken as they are
NewAgiloftClient ==
    /\ config_pc \in {"loaded", "validated"}
    /\ client_config' = config @@ [access_token |-> "None", expires_in |-> 0]
    /\ config_pc' = "constructed"
    /\ UNCHANGED <<config, http_requests, config_str, nonConfigVars>>

\* _authenticate up to session.post(login_url, json=login_data): the HTTP
\* library refuses a URL without a host before anything is sent
Authenticate ==
    /\ config_pc = "constructed"
    /\ LET login_url == client_config.base_url \o "/login"
           login_data == [password |-> client_config.password,
                          KB |-> client_config.kb,
                          login |-> client_config.username,
                          lang |-> client_config.language]
       IN  IF client_config.base_url = ""
           THEN /\ config_pc' = "invalid_url"
                /\ UNCHANGED http_requests
           ELSE /\ config_pc' = "login"
                /\ http_requests' = Append(http_requests,
                                           [method |-> "POST", url |-> login_url,
                                            json |-> login_data])
    /\ UNCHANGED <<config, client_config, config_str, nonConfigVars>>

\* the reply to POST /login
Authenticated ==
    /\ config_pc = "login"
    /\ \E reply \in LoginReplies :
         IF reply.kind = "ok"
         THEN /\ config_pc' = "authenticated"
              /\ client_config' = [client_config EXCEPT
                                      !.access_token = reply.token,
                                      !.expires_in = ExpiresIn(reply)]
         ELSE /\ config_pc' = reply.kind
              /\ UNCHANGED client_config
    /\ UNCHANGED <<config, http_requests, config_str, nonConfigVars>>

\* str(config): to_dict returns self._config_data.copy(), a shallow copy whose
\* "agiloft" section is the stored section itself, so the mask is written
\* into the stored configuration; the text is json.dumps of the result
ConfigStr ==
    /\ config_str = None
    /\ LET safe_config == [config EXCEPT !.password = "***masked***"]
       IN  /\ config' = safe_config
           /\ config_str' = <<safe_config>>
    /\ UNCHANGED <<config_pc, client_config, http_requests, nonConfigVars>>

ConfigSpecInit ==
    /\ ConfigInit
    /\ ClientInit
    /\ SanitizeIdle
    /\ GenIdle
    /\ HandlerIdle
    /\ GetIdle
    /\ WorkflowIdle
    /\ LogoutIdle
    /\ RequestIdle

ConfigNext ==
    \/ ConfigValidate
    \/ NewAgiloftClient
    \/ Authenticate
    \/ Authenticated
    \/ ConfigStr

ConfigSpec == ConfigSpecInit /\ [][ConfigNext]_vars

\* C19: a transport configured with a blank password or a blank base URL
\* fails before issuing any login or API request.
C19_NoRequestWhenBlank ==
    (/\ DOMAIN client_config # {}
     /\ client_config.password = "" \/ client_config.base_url = "")
        => http_requests = <<>>

(***************************************************************************)
(* Transport-level failures of a request                                   *)
(***************************************************************************)
\* C20: a transport-level failure during the proactive login, the first
\* attempt or the retry after a 401 re-authentication makes the request fail
\* with an API error wrapping the cause, and the request is not attempted
\* again: the call that met the failure ends there.
C20_TransportFailureIsApiError ==
    /\ last.reply = "client_error" => last.outcome = "api_error"
    /\ \A p \in Procs : attempts[p] <= 2

(***************************************************************************)
(* Failed authentication                                                   *)
(***************************************************************************)
\* the task's login, proactive or forced by a 401, is answered in this step
\* and ends the call
LoginEndsCall(p) == pc[p] \in {"auth_login", "relogin"} /\ pc'[p] = "idle"

\* C21: a login answered with a non-200 status or with a body whose success
\* is false raises an authentication error and leaves access_token,
\* refresh_token and token_expires_at as they were before the attempt; an
\* unauthenticated transport stays unauthenticated.
C21_FailedLoginKeepsTokens ==
    [][\A p \in Procs :
        (LoginEndsCall(p) /\ last'.reply \in {"http_error", "api_error"})
            => /\ last'.outcome = "auth_error"
               /\ access_token' = access_token
               /\ refresh_token' = refresh_token
               /\ token_expires_at' = token_expires_at]_vars

\* a login forced by a 401 was refused while a token was held
C21_Witness ==
    /\ last.outcome = "auth_error"
    /\ last.reply \in {"http_error", "api_error"}
    /\ access_token \in Tokens
    /\ token_expires_at # NoExpiry

(***************************************************************************)
(* Logins in flight                                                        *)
(***************************************************************************)
\* the tasks whose POST /login is in flight
LoggingIn == {p \in Procs : pc[p] \in {"auth_login", "relogin"}}

\* C22: in every interleaving at most one login request is in flight, the
\* logins triggered by a 401 included, and the token fields are written only
\* by a caller holding the auth lock.
C22_OneLoginInFlight ==
    /\ [](Cardinality(LoggingIn) <= 1)
    /\ [][<<access_token, refresh_token, token_expires_at>>
                # <<access_token', refresh_token', token_expires_at'>>
            => \E p \in Procs : auth_lock = p /\ pc[p] # pc'[p]]_vars

(***************************************************************************)
(* The freshness check before a request                                    *)
(***************************************************************************)
\* the task runs the freshness check in this step: it holds the lock and
\* either starts a login or sends its first attempt
Checks(p) == pc[p] \in {"idle", "wait_lock"} /\ pc'[p] \in {"auth_login", "req1"}

\* no token is held, or now >= expiry minus one minute
Stale == access_token = NoToken \/ now >= token_expires_at - 1

\* the first attempt of the task's request is sent in this step
SendsFirst(p) == pc[p] # "req1" /\ pc'[p] = "req1"

\* a login is performed before the request exactly when the check finds the
\* token stale; the first attempt carries the token held when it is sent
LoginIffStale ==
    \A p \in Procs :
        /\ (Checks(p) /\ Stale) => pc'[p] = "auth_login"
        /\ (Checks(p) /\ ~Stale)
              => /\ pc'[p] = "req1"
                 /\ access_token' = access_token
                 /\ token_expires_at' = token_expires_at
        /\ SendsFirst(p)
              => /\ pc[p] \in {"idle", "wait_lock", "auth_login"}
                 /\ bearer'[p] = access_token'
                 /\ bearer'[p] \in Tokens

\* C23 (as claimed): before every request the freshness check decides whether
\* a login completes first, and every first attempt carries a bearer token
\* that is more than one minute from expiry.
C23_FirstAttemptFresh ==
    [][/\ LoginIffStale
       /\ \A p \in Procs :
             SendsFirst(p) => now' < token_expires_at' - 1]_vars

\* C23 (amended): as claimed, except that only a first attempt sent without a
\* login carries a token more than one minute from expiry; after a login the
\* first attempt carries the token that login has just stored, whatever the
\* lifetime the remote service gave it.
C23_FirstAttemptFreshOrNew ==
    [][/\ LoginIffStale
       /\ \A p \in Procs :
             SendsFirst(p)
                => \/ pc[p] \in {"idle", "wait_lock"} /\ now' < token_expires_at' - 1
                   \/ pc[p] = "auth_login" /\ token_expires_at' >= now']_vars

\* at time 0 a login was answered with a token that lives one minute, and the
\* first attempt was sent with it
C23_Witness ==
    \E p \in Procs :
        /\ pc[p] = "req1"
        /\ now = 0
        /\ bearer[p] = access_token
        /\ token_expires_at = 1

(***************************************************************************)
(* Logout                                                                  *)
(***************************************************************************)
LogoutSpecInit ==
    /\ ClientInit
    /\ SanitizeIdle
    /\ GenIdle
    /\ HandlerIdle
    /\ GetIdle
    /\ WorkflowIdle
    /\ ConfigIdle
    /\ LogoutIdle
    /\ RequestIdle

LogoutNext ==
    \/ Tick
    \/ Request
    \/ logout_pc # "request" /\ LoginResponse(Caller)
    \/ logout_pc # "request" /\ Response1(Caller)
    \/ logout_pc # "request" /\ ReloginResponse(Caller)
    \/ logout_pc # "request" /\ Response2(Caller)
    \/ Logout
    \/ LogoutLoginResponse
    \/ LogoutResponse1
    \/ LogoutReloginResponse
    \/ LogoutResponse2

LogoutSpec == LogoutSpecInit /\ [][LogoutNext]_vars

\* logout has returned on a transport that held a token, and no request has
\* been made since
LoggedOut == logout_pc = "returned"

\* C24: after logout() returns on a transport that held a token,
\* access_token, refresh_token and token_expires_at are all absent, whether
\* the remote logout succeeded or failed, a re-authentication during that
\* call included; the next request logs in before it is sent.
C24_LogoutClearsTokens ==
    /\ [](LoggedOut => /\ access_token = NoToken
                       /\ refresh_token = NoToken
                       /\ token_expires_at = NoExpiry
                       /\ pc[Caller] = "idle")
    /\ [][(LoggedOut /\ pc'[Caller] # "idle")
            => pc'[Caller] = "auth_login" /\ attempts'[Caller] = 0]_vars

\* logout returned after its request was answered 401, the forced login
\* stored a new token and the retry was answered 401 again
C24_Witness ==
    /\ LoggedOut
    /\ last = [outcome |-> "api_error", reply |-> "401"]
    /\ access_token = NoToken

(***************************************************************************)
(* What create and update send                                             *)
(***************************************************************************)
\* the tool creates or updates a record and was called with the data map
WritesData(d) ==
    /\ Registered
    /\ ToolDispatch[name][2] \in {"create", "update"}
    /\ ArgGet(arguments, "data", <<EmptyDict>>) = <<d>>

\* the value is null or the empty string
NullOrEmpty(v) == v.t = "null" \/ (v.t = "str" /\ v.s = <<>>)

\* C25: the create and update handlers send the caller's data without the
\* keys whose value is null or the empty string: every other key is sent with
\* its value unchanged, 0 and false included, no key is added, and the
\* caller's map is not modified.
C25_SendsDataWithoutEmpty ==
    /\ [](\A d \in {SomeData} :
            (WritesData(d) /\ handler_pc # "called")
                => /\ Len(calls) = 1
                   /\ calls[1].method = ClientMethod(ToolDispatch[name][2])
                   /\ LET sent == calls[1].data[1]
                      IN  /\ DOMAIN sent = {k \in DOMAIN d : ~NullOrEmpty(d[k])}
                          /\ \A k \in DOMAIN sent : sent[k] = d[k])
    /\ [][arguments' = arguments]_vars

\* an update was sent with the name, the amount 0 and the flag false, and
\* without the empty note and the null owner
C25_Witness ==
    /\ WritesData(SomeData)
    /\ ToolDispatch[name][2] = "update"
    /\ handler_pc = "returned"
    /\ Len(calls) = 1
    /\ DOMAIN calls[1].data[1] = {"company_name", "amount", "auto_renew"}
    /\ calls[1].data[1].amount = IntValue(0)

(***************************************************************************)
(* get_contract_summary: the date flag                                     *)
(***************************************************************************)
\* the summary of a contract with a parsable end date was returned
SummarisedDated ==
    /\ Ended("get_contract_summary")
    /\ wf_result.success
    /\ "days_remaining" \in DOMAIN wf_result.data

IsDateFlag(issue) == issue \in {"EXPIRED", "URGENT", "review soon"}

\* the date flags among the health issues returned, in order
DateFlags ==
    IF "health_issues" \in DOMAIN wf_result.data
    THEN SelectSeq(wf_result.data.health_issues, IsDateFlag)
    ELSE <<>>

\* C26 (as claimed): for a contract with a parsable end date and d days
\* remaining the summary has exactly the date flag EXPIRED when d <= 0, URGENT
\* when 0 < d <= 30, review soon when 30 < d <= 90, and none when d > 90.
C26_ExpiredFromZero ==
    SummarisedDated =>
        LET d == wf_result.data.days_remaining
        IN  DateFlags = IF d <= 0 THEN <<"EXPIRED">>
                        ELSE IF d <= 30 THEN <<"URGENT">>
                        ELSE IF d <= 90 THEN <<"review soon">>
                        ELSE <<>>

\* C26 (amended): as claimed, except that the flag is EXPIRED when d < 0 and
\* URGENT when 0 <= d <= 30.
C26_ExpiredBelowZero ==
    SummarisedDated =>
        LET d == wf_result.data.days_remaining
        IN  DateFlags = IF d < 0 THEN <<"EXPIRED">>
                        ELSE IF d <= 30 THEN <<"URGENT">>
                        ELSE IF d <= 90 THEN <<"review soon">>
                        ELSE <<>>

\* a contract with 0 days remaining was summarised as URGENT
C26_Witness ==
    /\ SummarisedDated
    /\ wf_result.data.days_remaining = 0
    /\ DateFlags = <<"URGENT">>

(***************************************************************************)
(* find_expiring_contracts: every dated contract is returned in a bucket   *)
(***************************************************************************)
\* the remote service returned only contracts that match the date range of
\* the query: none that ended before today unless the expired were asked for
InQueriedRange ==
    \/ ArgGet(wf_arguments, "include_expired", FALSE)
    \/ \A i \in DOMAIN Retrieved :
            Parsable(Retrieved[i]) => Retrieved[i].contract_end_date.day >= 0

\* the bucket lists returned in data
ReturnedBuckets == {"urgent", "upcoming", "planning", "expired"} \cap DOMAIN wf_result.data

\* the places of a contract in the returned lists
PlacesOf(contract) ==
    {place \in ReturnedBuckets \X (1..Len(Retrieved)) :
        /\ place[2] \in DOMAIN wf_result.data[place[1]]
        /\ wf_result.data[place[1]][place[2]].id = contract.id}

RECURSIVE SumOfLengths(_)
SumOfLengths(buckets) ==
    IF buckets = {} THEN 0
    ELSE LET b == CHOOSE b \in buckets : TRUE
         IN  Len(wf_result.data[b]) + SumOfLengths(buckets \ {b})

\* the retrieved contracts without a parsable end date
Skipped == {i \in DOMAIN Retrieved : ~Parsable(Retrieved[i])}

\* C27: whenever find_expiring_contracts returns success, every retrieved
\* contract with a parsable end date is in exactly one of the bucket lists
\* returned in data, and the lengths of the returned lists plus the number of
\* skipped contracts equal summary.total_found, with and without
\* include_expired, a contract that ends today included.
C27_EveryDatedContractListed ==
    (Searched /\ InQueriedRange)
        => /\ wf_result.success
           /\ \A i \in DOMAIN Retrieved :
                Parsable(Retrieved[i]) => Cardinality(PlacesOf(Retrieved[i])) = 1
           /\ SumOfLengths(ReturnedBuckets) + Cardinality(Skipped)
                = wf_result.data.summary.total_found

(***************************************************************************)
(* The queries of the composite workflows                                  *)
(***************************************************************************)
\* the text with every single quote doubled
Doubled(text) == Replace(text, <<Quote>>, <<Quote, Quote>>)

\* the queries sent so far that search the path
QueriesTo(path) ==
    {wf_calls[i].arg : i \in {j \in DOMAIN wf_calls :
                                 /\ wf_calls[j].method = "search_records"
                                 /\ wf_calls[j].path = path}}

\* the last tokens of a query
Ending(query, n) == SubSeq(query, Len(query) - n + 1, Len(query))

\* C29: no workflow places a caller-supplied string into a quoted position of
\* a remote query without sanitizing it: in the queries of preflight,
\* create-with-company, expiring-contracts and onboarding a single quote
\* inside the caller's contract type, company name or status filter appears
\* doubled.
C29_WorkflowQueriesSanitized ==
    LET contract_type == TextOf(wf_arguments, "contract_type")
        company_name == TextOf(wf_arguments, "company_name")
        status_filter == TextOf(wf_arguments, "status_filter")
        onboarded == CompanyNameOf(ArgGet(wf_arguments, "company_data", EmptyDict))
    IN  /\ workflow = "preflight_create_contract"
            => /\ QueriesTo("/contract_type")
                    \subseteq {<<"status=Active">>,
                               <<"contract_type='">> \o Doubled(contract_type)
                                   \o <<"' AND status=Active">>}
               /\ QueriesTo("/company")
                    \subseteq {<<"company_name~='">> \o Doubled(company_name) \o <<"'">>}
        /\ workflow = "create_contract_with_company"
            => QueriesTo("/company")
                 \subseteq {<<"company_name='">> \o Doubled(company_name) \o <<"'">>}
        /\ workflow = "onboard_company_with_contact"
            => QueriesTo("/company")
                 \subseteq {<<"company_name='">> \o Doubled(onboarded) \o <<"'">>}
        /\ (workflow = "find_expiring_contracts" /\ status_filter # <<>>)
            => \A q \in QueriesTo("/contract") :
                 Ending(q, Len(status_filter) + 2)
                    = <<" AND wfstate='">> \o Doubled(status_filter) \o <<"'">>

(***************************************************************************)
(* str(config)                                                             *)
(***************************************************************************)
\* C30: rendering the configuration as a string leaves the stored
\* configuration unchanged: the text shows the password masked, and after
\* str(config) every config.get(path), get('agiloft.password') included,
\* returns what it returned before.
C30_StrLeavesConfig ==
    [][config_str' # config_str
        => /\ config_str'[1].password = "***masked***"
           /\ \A path \in DOMAIN config : config'[path] = config[path]]_vars

(***************************************************************************)
(* The retry after a 401                                                   *)
(***************************************************************************)
RequestSpecInit ==
    /\ ClientInit
    /\ SanitizeIdle
    /\ GenIdle
    /\ HandlerIdle
    /\ GetIdle
    /\ WorkflowIdle
    /\ ConfigIdle
    /\ LogoutIdle
    /\ RequestIdle

RequestNext ==
    \/ MakeRequest
    \/ RequestLoginResponse
    \/ RequestResponse1
    \/ RequestReloginResponse
    \/ RequestResponse2

RequestSpec == RequestSpecInit /\ [][RequestNext]_vars

\* the headers without the bearer token
OtherHeaders(headers) == [h \in DOMAIN headers \ {"Authorization"} |-> headers[h]]

\* C28: the request retried after a 401 re-authentication is sent with the
\* method, URL, parameters, body and caller header overrides of the first
\* attempt, differing only in the bearer token; a retried attachment upload
\* still has no default JSON content-type header.
C28_RetrySameButToken ==
    Len(req_sent) = 2
        => /\ req_sent[2].method = req_sent[1].method
           /\ req_sent[2].url = req_sent[1].url
           /\ req_sent[2].params = req_sent[1].params
           /\ req_sent[2].body = req_sent[1].body
           /\ OtherHeaders(req_sent[2].headers) = OtherHeaders(req_sent[1].headers)
           /\ req_sent[2].headers.Authorization = <<"Bearer", access_token>>
           /\ req_sent[2].body = "form" => "ContentType" \notin DOMAIN req_sent[2].headers

====
